---- MODULE Spec2Model ----
(***************************************************************************)
(* EduSynapse back end: the crew orchestrator (app/agents/crew.py), the    *)
(* question generation agent (app/agents/question_generation_agent.py)     *)
(* and the information retrieval agent                                     *)
(* (app/agents/information_retrieval_agent.py).                            *)
(*                                                                         *)
(* Thirteen specifications share the module:                               *)
(*   SpecRetry    - EduSynapseCrew._execute_with_retry around an abstract  *)
(*                  unit of work, for every max_retries argument;          *)
(*   Spec         - EduSynapseCrew.generate_question and                   *)
(*                  generate_batch_questions, their three stages run       *)
(*                  through the retry wrapper, the question agent (with    *)
(*                  its batch, sequential and gather paths) behind         *)
(*                  stage 3;                                               *)
(*   SpecRetrieve - InformationRetrievalAgent.retrieve, its three tiers    *)
(*                  and the ranking;                                       *)
(*   SpecRank     - _rank_results called on a list of candidates;          *)
(*   SpecDifficulty - AdaptiveEngine.calculate_next_difficulty             *)
(*                  (app/services/adaptive_engine.py);                     *)
(*   SpecProfile  - LearnerProfile.add_performance                         *)
(*                  (app/models/learner_profile.py) and the submit_answer  *)
(*                  route (app/routes/assessments.py);                     *)
(*   SpecDraw     - the stochastic difficulty draws;                       *)
(*   SpecStore    - VectorStore (app/utils/vector_store.py) over the two   *)
(*                  files it keeps on disk;                                *)
(*   SpecRetryConfigured - _execute_with_retry for every value of          *)
(*                  settings.crewai_max_retries;                           *)
(*   SpecLive     - Spec with every awaited step eventually resuming;      *)
(*   SpecBackoff  - the delay _execute_with_retry sleeps before a retry;   *)
(*   SpecExecute  - EduSynapseCrew.execute;                                *)
(*   SpecTwoStores - two VectorStore instances of one process.             *)
(***************************************************************************)
EXTENDS Integers, Sequences, FiniteSets, TLC

VARIABLES
    \* ---- EduSynapseCrew._execute_with_retry
    rpc,              \* "idle" | "try" | "sleep" | "returned" | "raised"
    max_retries_arg,  \* the max_retries argument (0 stands for None / 0)
    max_retries,      \* the effective budget after `or settings.crewai_max_retries`
    attempt,          \* the loop variable of `for attempt in range(max_retries)`
    calls,            \* how many times func(*args) was invoked
    errs,             \* outcome of each invocation, in order
    raised,           \* the error the wrapper raised to its caller
    \* ---- EduSynapseCrew.generate_question / generate_batch_questions
    ppc,              \* "idle" | "stage" | "returned" | "raised"
    mode,             \* "single" | "batch"
    count,            \* requested number of questions
    stage,            \* index into Stages of the stage being run
    agent_statuses,   \* stage name -> status
    failedStage,      \* index of the stage whose wrapper raised, 0 if none
    result,           \* what the crew returned to its caller
    \* ---- QuestionGenerationAgent
    llm_client,       \* whether an LLM client is configured
    bpc,              \* position inside the agent call
    questions,        \* the list the agent call has built
    loop_i,           \* index of the sequential per-item loop
    tasks,            \* per-item task of asyncio.gather
    gathered,         \* what gather returned
    \* ---- InformationRetrievalAgent.retrieve
    knowledge_service, \* whether a knowledge service is configured
    tavily_client,     \* whether a Tavily client is configured
    irpc,              \* position inside retrieve
    results,           \* the local variable `results`
    tier1_called,      \* _local_retrieval returned
    local_results,     \* what Tier 1 returned
    tier2_called,      \* _tavily_dynamic_search was invoked
    provider,          \* the external search: "untried"|"no_client"|"raised"|"empty"|"some"
    tier3_called,      \* _get_structured_template_content was invoked
    ir_error,          \* retrieve's except handler ran
    output,            \* the dict retrieve returned
    \* ---- InformationRetrievalAgent._rank_results called on its own
    rank_pc,           \* "idle" | "done"
    rank_input,        \* the list object passed as `results`
    rank_before,       \* the value of that list when the call was made
    ranked_results,    \* the list the call returned
    \* ---- LearnerProfile, the session and AdaptiveEngine
    profile_exists,          \* whether the user has a LearnerProfile document
    performance_window,      \* LearnerProfile.performance_window
    performance_window_size, \* LearnerProfile.performance_window_size
    history,                 \* every record add_performance was given, in order
    session_difficulty,      \* LearningSession.current_difficulty
    answered,                \* the last submit_answer: difficulty answered, result
    current_difficulty,      \* the level passed to AdaptiveEngine
    nd_log,                  \* calls of calculate_next_difficulty and their results
    drawn,                   \* the last stochastic draw and its result
    \* ---- VectorStore and the files it persists
    vs,                \* the VectorStore instance's attributes
    disk,              \* the vector file and the metadata file
    load_failed,       \* which file _load_index could not read, if any
    vs_last,           \* the last call on the store and what it returned
    \* ---- the delay _execute_with_retry computes before a retry
    sleep_call,        \* the last computation of sleep_for and its inputs
    \* ---- two VectorStore instances of one process
    cls_store,         \* the mutable objects held by the class attributes
    insts,             \* instance number -> the instance's own attributes
    \* ---- _llm_generate_question
    llm_last           \* what the provider did last in the current agent call

retryVars == <<rpc, max_retries_arg, max_retries, attempt, calls, errs, raised>>
crewVars == <<ppc, mode, count, stage, agent_statuses, failedStage, result>>
qaVars == <<llm_client, bpc, questions, loop_i, tasks, gathered>>
irVars == <<knowledge_service, tavily_client, irpc, results, tier1_called,
            local_results, tier2_called, provider, tier3_called, ir_error,
            output>>
rankVars == <<rank_pc, rank_input, rank_before, ranked_results>>
aeVars == <<profile_exists, performance_window, performance_window_size,
            history, session_difficulty, answered, current_difficulty,
            nd_log, drawn>>
vsVars == <<vs, disk, load_failed, vs_last>>
extVars == <<sleep_call, cls_store, insts>>
restButLlm == <<rankVars, aeVars, vsVars, extVars>>
restVars == <<restButLlm, llm_last>>
vars == <<retryVars, crewVars, qaVars, irVars, restVars>>

----------------------------------------------------------------------------
(* Bounds and program constants *)

MaxRetriesArg == 4

MaxCount == 3

MaxLocal == 3

\* longest list handed to _rank_results on its own
MaxRankInput == 6

\* longest performance window handed to the adaptive engine
MaxWindow == 6

\* calls of calculate_next_difficulty on one window
MaxCalls == 2

\* largest performance_window_size of a profile
MaxWindowSize == 5

\* external ids given to the vector store
MaxIds == 2

\* largest top_k of a search
MaxTopK == 2

\* add_performance calls on one profile
MaxAdds == 5

MaxTavily == 2

\* largest configured settings.crewai_max_retries
MaxConfigured == 2

\* largest attempt number after which the wrapper sleeps
MaxAttempt == 5

crewai_max_retries == 3

Stages_RetrievalFirst ==
    <<"information_retrieval", "query_analysis", "question_generation">>

Stages == <<"query_analysis", "information_retrieval", "question_generation">>

StageSet == {Stages[i] : i \in 1..Len(Stages)}

----------------------------------------------------------------------------
(* Idle values of each component *)

RetryIdle ==
    /\ rpc = "idle" /\ max_retries_arg = 0 /\ max_retries = 0
    /\ attempt = 0 /\ calls = 0 /\ errs = <<>> /\ raised = "none"

NoResult == [returned |-> FALSE, questions |-> <<>>, is_fallback |-> FALSE,
             has_statuses |-> FALSE]

CrewIdle ==
    /\ ppc = "idle" /\ mode = "single" /\ count = 1 /\ stage = 0
    /\ agent_statuses = [s \in StageSet |-> "pending"]
    /\ failedStage = 0 /\ result = NoResult

AgentIdle ==
    /\ bpc = "idle" /\ questions = <<>> /\ loop_i = 0
    /\ tasks = <<>> /\ gathered = <<>>

NoOutput == [returned |-> FALSE, status |-> "none", content_chunks |-> <<>>]

RetrieveIdle ==
    /\ irpc = "idle" /\ results = <<>>
    /\ tier1_called = FALSE /\ local_results = <<>>
    /\ tier2_called = FALSE /\ provider = "untried" /\ tier3_called = FALSE
    /\ ir_error = FALSE /\ output = NoOutput

RankIdle ==
    /\ rank_pc = "idle" /\ rank_input = <<>> /\ rank_before = <<>>
    /\ ranked_results = <<>>

NoAnswer == [difficulty |-> "none", evaluated |-> FALSE, is_correct |-> FALSE,
             recommended |-> "none"]

NoDraw == [by |-> "none", recommended |-> "none", level |-> "none"]

\* performance_window_size: int = 20
default_window_size == 20

AdaptiveIdle ==
    /\ profile_exists = FALSE /\ performance_window = <<>>
    /\ performance_window_size = default_window_size /\ history = <<>>
    /\ session_difficulty = "medium" /\ answered = NoAnswer
    /\ current_difficulty = "medium" /\ nd_log = <<>> /\ drawn = NoDraw

\* the class attributes of VectorStore: what a fresh instance reads
FreshStore ==
    [initialized |-> FALSE, vectors_none |-> TRUE, vectors |-> <<>>,
     vector_list |-> <<>>, id_to_metadata |-> {},
     content_id_to_index |-> {}, next_id |-> 0]

\* no vector file, no metadata file
EmptyDisk ==
    [vectors_exists |-> FALSE, vectors |-> <<>>, meta_exists |-> FALSE,
     id_to_metadata |-> {}, content_id_to_index |-> {}, next_id |-> 0]

NoCall == [op |-> "none"]

StoreIdle ==
    /\ vs = FreshStore /\ disk = EmptyDisk /\ load_failed = "none"
    /\ vs_last = NoCall

NoSleep == [kind |-> "none"]

\* the dicts and the list that the class attributes of VectorStore hold
ClassObjects ==
    [vector_list |-> <<>>, id_to_metadata |-> {}, content_id_to_index |-> {}]

\* an instance that has assigned no attribute of its own yet
FreshInstance ==
    [initialized |-> FALSE, vectors_none |-> TRUE, vectors |-> <<>>,
     next_id |-> 0,
     own_list |-> FALSE, vector_list |-> <<>>,
     own_maps |-> FALSE, id_to_metadata |-> {}, content_id_to_index |-> {}]

ExtIdle ==
    /\ sleep_call = NoSleep /\ cls_store = ClassObjects
    /\ insts = [i \in {1, 2} |-> FreshInstance]
    /\ llm_last = "none"

RestIdle == RankIdle /\ AdaptiveIdle /\ StoreIdle /\ ExtIdle

----------------------------------------------------------------------------
(* EduSynapseCrew._execute_with_retry                                      *)

\* max_retries = max_retries or settings.crewai_max_retries
EffectiveRetries(arg) == IF arg = 0 THEN crewai_max_retries ELSE arg

\* entering the wrapper: the budget is fixed, the loop starts at attempt 0
RetryStart(arg) ==
    /\ rpc' = "try"
    /\ max_retries_arg' = arg
    /\ max_retries' = EffectiveRetries(arg)
    /\ attempt' = 0 /\ calls' = 0 /\ errs' = <<>> /\ raised' = "none"

LastAttempt_OffByOne == attempt = max_retries

\* if attempt == max_retries - 1: raise
LastAttempt == attempt = max_retries - 1

\* return await asyncio.wait_for(func(*args, **kwargs), timeout=...)
TryReturn ==
    /\ rpc = "try"
    /\ rpc' = "returned"
    /\ calls' = calls + 1
    /\ errs' = Append(errs, "ok")
    /\ UNCHANGED <<max_retries_arg, max_retries, attempt, raised>>

\* except asyncio.TimeoutError: raise on the last attempt, otherwise the
\* loop goes straight to the next attempt (no sleep on this branch)
TryTimeout ==
    /\ rpc = "try"
    /\ calls' = calls + 1
    /\ errs' = Append(errs, "timeout")
    /\ IF LastAttempt
       THEN rpc' = "raised" /\ raised' = "timeout" /\ attempt' = attempt
       ELSE rpc' = "try" /\ raised' = raised /\ attempt' = attempt + 1
    /\ UNCHANGED <<max_retries_arg, max_retries>>

\* except Exception as e: raise on the last attempt, otherwise sleep
\* (rate-limit window or exponential backoff) before the next attempt
TryError(e) ==
    /\ rpc = "try"
    /\ calls' = calls + 1
    /\ errs' = Append(errs, e)
    /\ IF LastAttempt
       THEN rpc' = "raised" /\ raised' = e /\ attempt' = attempt
       ELSE rpc' = "sleep" /\ raised' = raised /\ attempt' = attempt
    /\ UNCHANGED <<max_retries_arg, max_retries>>

\* await asyncio.sleep(sleep_for), then the next iteration of the loop
BackoffDone ==
    /\ rpc = "sleep"
    /\ rpc' = "try"
    /\ attempt' = attempt + 1
    /\ UNCHANGED <<max_retries_arg, max_retries, calls, errs, raised>>

\* what func can raise besides asyncio.TimeoutError: a provider error, an
\* error whose text carries a rate-limit signature, any other exception
\* (a malformed response, a programming error)
ErrorKinds == {"generic", "ratelimit", "malformed"}

----------------------------------------------------------------------------
(* SpecRetry: the wrapper around an abstract unit of work *)

CallExecuteWithRetry ==
    /\ rpc = "idle"
    /\ \E arg \in 0..MaxRetriesArg : RetryStart(arg)
    /\ UNCHANGED <<crewVars, qaVars, irVars, restVars>>

UnitReturns == TryReturn /\ UNCHANGED <<crewVars, qaVars, irVars, restVars>>

UnitTimesOut == TryTimeout /\ UNCHANGED <<crewVars, qaVars, irVars, restVars>>

UnitRaises ==
    /\ \E e \in ErrorKinds : TryError(e)
    /\ UNCHANGED <<crewVars, qaVars, irVars, restVars>>

UnitBackoff == BackoffDone /\ UNCHANGED <<crewVars, qaVars, irVars, restVars>>

InitRetry ==
    /\ RetryIdle /\ CrewIdle /\ AgentIdle /\ RetrieveIdle /\ RestIdle
    /\ llm_client = FALSE /\ knowledge_service = FALSE /\ tavily_client = FALSE

NextRetry ==
    \/ CallExecuteWithRetry
    \/ UnitReturns
    \/ UnitTimesOut
    \/ UnitRaises
    \/ UnitBackoff

SpecRetry == InitRetry /\ [][NextRetry]_vars

----------------------------------------------------------------------------
(* SpecRetryConfigured: the wrapper under a configured crewai_max_retries  *)

\* max_retries = max_retries or settings.crewai_max_retries, with the
\* setting as configured
ConfiguredRetries(arg, configured) == IF arg = 0 THEN configured ELSE arg

\* entering the wrapper: `for attempt in range(max_retries)` has no
\* iteration when max_retries is 0, and the function ends without a return
\* statement (it returns None)
RetryStartConfigured(arg, configured) ==
    /\ rpc' = IF ConfiguredRetries(arg, configured) = 0
              THEN "returned" ELSE "try"
    /\ max_retries_arg' = arg
    /\ max_retries' = ConfiguredRetries(arg, configured)
    /\ attempt' = 0 /\ calls' = 0 /\ errs' = <<>> /\ raised' = "none"

CallConfigured ==
    /\ rpc = "idle"
    /\ \E arg \in 0..MaxRetriesArg, configured \in 0..MaxConfigured :
          RetryStartConfigured(arg, configured)
    /\ UNCHANGED <<crewVars, qaVars, irVars, restVars>>

NextRetryConfigured ==
    \/ CallConfigured
    \/ UnitReturns
    \/ UnitTimesOut
    \/ UnitRaises
    \/ UnitBackoff

SpecRetryConfigured == InitRetry /\ [][NextRetryConfigured]_vars

----------------------------------------------------------------------------
(* QuestionGenerationAgent: the question dicts it builds                   *)

\* a question dict: who wrote it, which per-item call produced it, and the
\* "batch_index" key its caller stored on it
Question(kind, origin, index) ==
    [kind |-> kind, origin |-> origin, batch_index |-> index]

\* _parse_generated_question on a parseable answer, and each item that
\* _parse_batch_questions builds from the provider's list
ParsedQuestion(origin, index) == Question("llm", origin, index)

\* _academic_template_question
AcademicTemplate(origin, index) == Question("academic_template", origin, index)

\* _fallback_question: always the academic template
FallbackQuestion(origin, index) == AcademicTemplate(origin, index)

\* _rule_based_generate_question
RuleBased(origin, index) == Question("rule_based", origin, index)

\* the exception object gather hands back for a task that raised
ExceptionObject(origin) == Question("exception", origin, 0)

IsDict(q) == q.kind # "exception"

\* max_retries = 3 inside _llm_generate_question
llm_max_retries == 3

\* what _llm_generate_question returns for the provider event that ends its
\* loop: a parsed answer, an answer json.loads rejects (_fallback_question),
\* or a failure that breaks out of the loop (academic template)
LlmQuestion_ParsesAnyway(ev, origin, index) ==
    IF ev \in {"parsed", "malformed"} THEN ParsedQuestion(origin, index)
    ELSE AcademicTemplate(origin, index)

LlmQuestion(ev, origin, index) ==
    IF ev = "parsed" THEN ParsedQuestion(origin, index)
    ELSE IF ev = "malformed" THEN FallbackQuestion(origin, index)
    ELSE AcademicTemplate(origin, index)

LlmEvents == {"parsed", "malformed", "failed"}

\* _parse_batch_questions on a parseable answer holding n >= 1 questions:
\* every provider question is kept, then rule-based ones are appended while
\* there are fewer than expected_count
ParseBatchQuestions(n, expected_count) ==
    [i \in 1..(IF n > expected_count THEN n ELSE expected_count) |->
        IF i <= n THEN ParsedQuestion(i, i - 1) ELSE RuleBased(i, i - 1)]

\* _parse_batch_questions on json.JSONDecodeError: expected_count rule-based
ParseBatchUnparseable(expected_count) ==
    [i \in 1..expected_count |-> RuleBased(i, i - 1)]

\* the test of generate_batch_questions on what the batch call returned:
\* questions and len(questions) >= count and not all(... "Based on your
\* study of" ...); allStudy says whether every question text starts so
BatchAccepted(qs, k, allStudy) == Len(qs) > 0 /\ Len(qs) >= k /\ ~allStudy

\* only provider-written texts can start with "Based on your study of"
CanAllStudy(qs) == \A i \in 1..Len(qs) : qs[i].kind = "llm"

\* generate_single(index): the generator's dict with batch_index stored on
\* it, or, when the generator raised, the academic template with batch_index
SingleResult(i, gen) ==
    IF gen = "raised" THEN AcademicTemplate(i, i - 1)
    ELSE IF gen = "handler_raised" THEN ExceptionObject(i)
    ELSE LlmQuestion(gen, i, i - 1)

GenOutcomes == LlmEvents \cup {"raised", "handler_raised"}

RECURSIVE FilterDropExceptions(_, _)
FilterDropExceptions(g, i) ==
    IF i > Len(g) THEN <<>>
    ELSE (IF IsDict(g[i]) THEN <<g[i]>> ELSE <<>>) \o FilterDropExceptions(g, i + 1)

FilterGathered_Drop(g) == FilterDropExceptions(g, 1)

\* the loop after gather: dicts are kept, anything else is replaced by
\* _fallback_question with batch_index i
FilterGathered(g) ==
    [i \in 1..Len(g) |-> IF IsDict(g[i]) THEN g[i] ELSE FallbackQuestion(i, i - 1)]

NewTask == [st |-> "created", gen |-> "none", res |-> ExceptionObject(0)]

----------------------------------------------------------------------------
(* EduSynapseCrew.generate_question / generate_batch_questions            *)

SetStatus(st, name, v) == [st EXCEPT ![name] = v]

\* for agent_name, status in agent_statuses.items():
\*     if status["status"] != "completed": status["status"] = "failed"
MarkAllFailed(st) == [s \in StageSet |-> "failed"]

MarkProcessingFailed(st) ==
    [s \in StageSet |-> IF st[s] = "processing" THEN "failed" ELSE st[s]]

MarkIncompleteFailed(st) ==
    [s \in StageSet |-> IF st[s] # "completed" THEN "failed" ELSE st[s]]

AgentReset ==
    /\ bpc' = "idle" /\ questions' = <<>> /\ loop_i' = 0
    /\ tasks' = <<>> /\ gathered' = <<>>

\* generate_question(context): agent_statuses is created, all pending
CallGenerateQuestion ==
    /\ ppc = "idle"
    /\ ppc' = "next" /\ mode' = "single" /\ count' = 1 /\ stage' = 1
    /\ agent_statuses' = [s \in StageSet |-> "pending"]
    /\ UNCHANGED <<failedStage, result, retryVars, qaVars, irVars, restVars>>

\* generate_batch_questions(context, count)
CallGenerateBatchQuestions ==
    /\ ppc = "idle"
    /\ \E k \in 1..MaxCount : count' = k
    /\ ppc' = "next" /\ mode' = "batch" /\ stage' = 1
    /\ agent_statuses' = [s \in StageSet |-> "pending"]
    /\ UNCHANGED <<failedStage, result, retryVars, qaVars, irVars, restVars>>

\* agent_statuses[stage]["status"] = "processing", then the stage's agent is
\* handed to _execute_with_retry with max_retries left at None
BeginStage ==
    /\ ppc = "next"
    /\ ppc' = "stage"
    /\ agent_statuses' = SetStatus(agent_statuses, Stages[stage], "processing")
    /\ RetryStart(0)
    /\ UNCHANGED <<mode, count, stage, failedStage, result, qaVars, irVars,
                   restVars>>

\* query_agent.analyze / retrieval_agent.retrieve return: both catch every
\* exception of their body and return a dict
StageUnitReturns ==
    /\ ppc = "stage" /\ stage \in {1, 2}
    /\ TryReturn
    /\ UNCHANGED <<crewVars, qaVars, irVars, restVars>>

\* analyze builds its prompt before its try block: an exception there reaches
\* the wrapper
AnalyzeRaises ==
    /\ ppc = "stage" /\ stage = 1
    /\ \E e \in ErrorKinds : TryError(e)
    /\ UNCHANGED <<crewVars, qaVars, irVars, restVars>>

StageBackoff ==
    /\ ppc = "stage"
    /\ BackoffDone
    /\ UNCHANGED <<crewVars, qaVars, irVars, restVars>>

\* whether the stage's agent is suspended at an await that wait_for can cut
Suspended ==
    \/ stage = 1 /\ llm_client
    \/ stage = 2 /\ (llm_client \/ tavily_client)
    \/ stage = 3 /\ bpc \in {"llm", "llm_sleep", "batch_llm", "individual", "parallel"}

\* asyncio.wait_for cancels the stage's coroutine
StageTimesOut ==
    /\ ppc = "stage" /\ Suspended
    /\ TryTimeout
    /\ AgentReset
    /\ llm_last' = "none"
    /\ UNCHANGED <<crewVars, llm_client, irVars, restButLlm>>

\* a stage before the last returned: status completed, on to the next stage
StageCompleted ==
    /\ ppc = "stage" /\ rpc = "returned" /\ stage < Len(Stages)
    /\ agent_statuses' = SetStatus(agent_statuses, Stages[stage], "completed")
    /\ stage' = stage + 1
    /\ ppc' = "next"
    /\ rpc' = "idle"
    /\ UNCHANGED <<mode, count, failedStage, result, qaVars, irVars,
                   max_retries_arg, max_retries, attempt, calls, errs, raised,
                   restVars>>

\* the last stage returned: status completed, the question (or the list with
\* "is_fallback": False) goes back to the caller with agent_statuses
ReturnGenerated ==
    /\ ppc = "stage" /\ rpc = "returned" /\ stage = Len(Stages)
    /\ agent_statuses' = SetStatus(agent_statuses, Stages[stage], "completed")
    /\ result' = [returned |-> TRUE, questions |-> questions,
                  is_fallback |-> FALSE, has_statuses |-> TRUE]
    /\ ppc' = "returned"
    /\ UNCHANGED <<mode, count, stage, failedStage, retryVars, qaVars, irVars,
                   restVars>>

HandlerReraises ==
    /\ ppc = "stage" /\ rpc = "raised"
    /\ ppc' = "raised"
    /\ failedStage' = stage
    /\ UNCHANGED <<mode, count, stage, agent_statuses, result, retryVars,
                   qaVars, irVars, restVars>>

\* except Exception: every status that is not completed becomes failed, and
\* the caller gets _fallback_question (count of them in batch mode) with
\* agent_statuses and "is_fallback": True
ExceptHandler ==
    /\ ppc = "stage" /\ rpc = "raised"
    /\ agent_statuses' = MarkIncompleteFailed(agent_statuses)
    /\ failedStage' = stage
    /\ result' = [returned |-> TRUE,
                  questions |-> [i \in 1..count |-> FallbackQuestion(0, 0)],
                  is_fallback |-> TRUE, has_statuses |-> TRUE]
    /\ ppc' = "returned"
    /\ UNCHANGED <<mode, count, stage, retryVars, qaVars, irVars, restVars>>

----------------------------------------------------------------------------
(* Stage 3, single question: QuestionGenerationAgent.generate_question    *)

AtAgentEntry(m) ==
    /\ ppc = "stage" /\ stage = Len(Stages) /\ mode = m
    /\ rpc = "try" /\ bpc = "idle"

InAgent(m, at) ==
    /\ ppc = "stage" /\ stage = Len(Stages) /\ mode = m
    /\ rpc = "try" /\ bpc = at

\* the agent call returns qs to the wrapper
AgentReturns(qs) ==
    /\ questions' = qs
    /\ bpc' = "done"
    /\ TryReturn

\* no LLM client: _rule_based_generate_question, no await on the way
GenerateRuleBased ==
    /\ AtAgentEntry("single") /\ ~llm_client
    /\ AgentReturns(<<RuleBased(1, 0)>>)
    /\ UNCHANGED <<crewVars, llm_client, loop_i, tasks, gathered, irVars, restVars>>

\* _llm_generate_question builds the prompt and awaits the provider
GenerateCallsLlm ==
    /\ AtAgentEntry("single") /\ llm_client
    /\ bpc' = "llm" /\ loop_i' = 0
    /\ llm_last' = "none"
    /\ UNCHANGED <<crewVars, retryVars, llm_client, questions, tasks, gathered,
                   irVars, restButLlm>>

\* an exception before the provider is awaited (building the prompt) is
\* caught by generate_question: return self._fallback_question(context)
GeneratePromptRaises ==
    /\ AtAgentEntry("single") /\ llm_client
    /\ AgentReturns(<<FallbackQuestion(1, 0)>>)
    /\ UNCHANGED <<crewVars, llm_client, loop_i, tasks, gathered, irVars, restVars>>

\* the provider answered: _parse_generated_question, parseable or not
LlmAnswers ==
    /\ InAgent("single", "llm")
    /\ \E ev \in {"parsed", "malformed"} :
          /\ AgentReturns(<<LlmQuestion(ev, 1, 0)>>)
          /\ llm_last' = ev
    /\ UNCHANGED <<crewVars, llm_client, loop_i, tasks, gathered, irVars,
                   restButLlm>>

\* the provider raised: a rate-limit error with attempts left sleeps and
\* retries, anything else breaks out to the academic template
LlmRaises ==
    /\ InAgent("single", "llm")
    /\ \E is_rate_limit \in BOOLEAN :
          /\ llm_last' = IF is_rate_limit THEN "ratelimit" ELSE "error"
          /\ IF is_rate_limit /\ loop_i < llm_max_retries - 1
             THEN /\ bpc' = "llm_sleep"
                  /\ UNCHANGED <<questions, retryVars>>
             ELSE AgentReturns(<<LlmQuestion("failed", 1, 0)>>)
    /\ UNCHANGED <<crewVars, llm_client, loop_i, tasks, gathered, irVars,
                   restButLlm>>

LlmSleepDone_SameAttempt ==
    /\ InAgent("single", "llm_sleep")
    /\ bpc' = "llm"
    /\ UNCHANGED <<crewVars, retryVars, llm_client, questions, loop_i, tasks,
                   gathered, irVars, restVars>>

LlmSleepDone ==
    /\ InAgent("single", "llm_sleep")
    /\ bpc' = "llm" /\ loop_i' = loop_i + 1
    /\ UNCHANGED <<crewVars, retryVars, llm_client, questions, tasks, gathered,
                   irVars, restVars>>

----------------------------------------------------------------------------
(* Stage 3, batch: QuestionGenerationAgent.generate_batch_questions       *)

\* no LLM client: count rule-based questions, batch_index stored on each
BatchRuleBased ==
    /\ AtAgentEntry("batch") /\ ~llm_client
    /\ AgentReturns([i \in 1..count |-> RuleBased(i, i - 1)])
    /\ UNCHANGED <<crewVars, llm_client, loop_i, tasks, gathered, irVars, restVars>>

\* _llm_generate_batch_questions builds its prompt and awaits the provider
BatchCallsLlm ==
    /\ AtAgentEntry("batch") /\ llm_client
    /\ bpc' = "batch_llm"
    /\ llm_last' = "none"
    /\ UNCHANGED <<crewVars, retryVars, llm_client, questions, loop_i, tasks,
                   gathered, irVars, restButLlm>>

StartParallel(qs) ==
    /\ questions' = qs
    /\ bpc' = "parallel"
    /\ tasks' = [i \in 1..count |-> NewTask]
    /\ UNCHANGED <<retryVars, loop_i, gathered>>

\* _llm_generate_batch_questions raised before its own try block (building
\* the prompt): generate_batch_questions logs it and goes parallel
BatchPromptRaises ==
    /\ AtAgentEntry("batch") /\ llm_client
    /\ StartParallel(<<>>)
    /\ UNCHANGED <<crewVars, llm_client, irVars, restVars>>

\* what generate_batch_questions does with the list the batch call returned
AcceptOrParallel(qs, allStudy) ==
    IF BatchAccepted(qs, count, allStudy)
    THEN AgentReturns(qs) /\ UNCHANGED <<loop_i, tasks, gathered>>
    ELSE StartParallel(qs)

\* the provider's batch answer parses and holds n >= 1 questions
BatchLlmAnswers ==
    /\ InAgent("batch", "batch_llm")
    /\ \E n \in 1..(count + 1), allStudy \in BOOLEAN :
          /\ allStudy => CanAllStudy(ParseBatchQuestions(n, count))
          /\ AcceptOrParallel(ParseBatchQuestions(n, count), allStudy)
    /\ llm_last' = "parsed"
    /\ UNCHANGED <<crewVars, llm_client, irVars, restButLlm>>

\* the provider's batch answer is not JSON: json.JSONDecodeError
BatchLlmUnparseable ==
    /\ InAgent("batch", "batch_llm")
    /\ AcceptOrParallel(ParseBatchUnparseable(count), FALSE)
    /\ llm_last' = "malformed"
    /\ UNCHANGED <<crewVars, llm_client, irVars, restButLlm>>

\* the provider raised, or the answer held no questions (ValueError), or an
\* item was not an object: the except of _llm_generate_batch_questions, then
\* its loop of individual generations
BatchLlmFails ==
    /\ InAgent("batch", "batch_llm")
    /\ bpc' = "individual" /\ loop_i' = 0 /\ questions' = <<>>
    /\ llm_last' = "error"
    /\ UNCHANGED <<crewVars, retryVars, llm_client, tasks, gathered, irVars,
                   restButLlm>>

\* one iteration of that loop: _llm_generate_question, or the academic
\* template when it raised; batch_index = i
IndividualStep ==
    /\ InAgent("batch", "individual") /\ loop_i < count
    /\ \E gen \in LlmEvents \cup {"raised"} :
          questions' = Append(questions, SingleResult(loop_i + 1, gen))
    /\ loop_i' = loop_i + 1
    /\ UNCHANGED <<crewVars, retryVars, llm_client, bpc, tasks, gathered, irVars,
                   restVars>>

\* the loop is over: the list goes back to generate_batch_questions
IndividualDone ==
    /\ InAgent("batch", "individual") /\ loop_i = count
    /\ \E allStudy \in BOOLEAN :
          /\ allStudy => CanAllStudy(questions)
          /\ AcceptOrParallel(questions, allStudy)
    /\ UNCHANGED <<crewVars, llm_client, irVars, restVars>>

----------------------------------------------------------------------------
(* QuestionGenerationAgent._parallel_generate_questions                   *)

\* gather schedules generate_single(i); the tasks start in index order
TaskStart(i) ==
    /\ InAgent("batch", "parallel")
    /\ i \in DOMAIN tasks
    /\ tasks[i].st = "created"
    /\ \A j \in 1..(i - 1) : tasks[j].st # "created"
    /\ tasks' = [tasks EXCEPT ![i].st = "awaiting"]
    /\ UNCHANGED <<crewVars, retryVars, llm_client, bpc, questions, loop_i,
                   gathered, irVars, restVars>>

\* generate_single(i) ends: with the generator's question, with the academic
\* template when the generator raised, or with an exception of its own when
\* the handler raised too; no other task is touched
TaskFinish(i) ==
    /\ InAgent("batch", "parallel")
    /\ i \in DOMAIN tasks
    /\ tasks[i].st = "awaiting"
    /\ \E gen \in GenOutcomes :
          tasks' = [tasks EXCEPT ![i] =
                       [st |-> "done", gen |-> gen, res |-> SingleResult(i, gen)]]
    /\ UNCHANGED <<crewVars, retryVars, llm_client, bpc, questions, loop_i,
                   gathered, irVars, restVars>>

AllTasksDone == \A i \in 1..Len(tasks) : tasks[i].st = "done"

\* await asyncio.gather(*tasks, return_exceptions=True) returns once every
\* task is done; the results are filtered and returned
GatherReturns ==
    /\ InAgent("batch", "parallel")
    /\ AllTasksDone
    /\ gathered' = [i \in 1..Len(tasks) |-> tasks[i].res]
    /\ AgentReturns(FilterGathered([i \in 1..Len(tasks) |-> tasks[i].res]))
    /\ UNCHANGED <<crewVars, llm_client, loop_i, tasks, irVars, restVars>>

----------------------------------------------------------------------------
(* Spec: the crew's two generation entry points *)

Init ==
    /\ RetryIdle /\ CrewIdle /\ AgentIdle /\ RetrieveIdle /\ RestIdle
    /\ llm_client \in BOOLEAN
    /\ tavily_client \in BOOLEAN
    /\ knowledge_service = FALSE

Next ==
    \/ CallGenerateQuestion
    \/ CallGenerateBatchQuestions
    \/ BeginStage
    \/ StageUnitReturns
    \/ AnalyzeRaises
    \/ StageBackoff
    \/ StageTimesOut
    \/ StageCompleted
    \/ ReturnGenerated
    \/ ExceptHandler
    \/ GenerateRuleBased
    \/ GenerateCallsLlm
    \/ GeneratePromptRaises
    \/ LlmAnswers
    \/ LlmRaises
    \/ LlmSleepDone
    \/ BatchRuleBased
    \/ BatchCallsLlm
    \/ BatchPromptRaises
    \/ BatchLlmAnswers
    \/ BatchLlmUnparseable
    \/ BatchLlmFails
    \/ IndividualStep
    \/ IndividualDone
    \/ \E i \in 1..MaxCount : TaskStart(i) \/ TaskFinish(i)
    \/ GatherReturns

Spec == Init /\ [][Next]_vars

\* every awaited call returns, raises or is cut off by the timeout, and the
\* event loop runs whatever is ready: some enabled step is taken
SpecLive == Spec /\ WF_vars(Next)

----------------------------------------------------------------------------
(* InformationRetrievalAgent: candidates and ranking                      *)
(* Scores are in hundredths: 75 stands for 0.75.                          *)

\* recommendations.suggested_difficulty of the query analysis; Tier 1
\* filters on it and Tiers 2 and 3 stamp it on what they produce
suggested_difficulty == "medium"

Candidate(id, source, score, weak, gap, difficulty) ==
    [content_id |-> id, source |-> source, relevance_score |-> score,
     nWeak |-> weak, nGap |-> gap, difficulty |-> difficulty,
     scored |-> FALSE, final_score |-> 0]

\* the i-th best chunk of the knowledge base for the query: Tier 1 returns
\* its results sorted by relevance, best first; the relevance is a cosine
\* similarity times the modality score, anywhere in [-1, 1]; nWeak / nGap
\* count the chunk's concepts that contain a learner weakness / knowledge gap
LocalCand(i) ==
    Candidate(<<"kb", i>>, "local_knowledge_base", 70 - 40 * i,
              i % 2, (i \div 2) % 2, suggested_difficulty)

RECURSIVE Ascending(_)
Ascending(S) ==
    IF S = {} THEN <<>>
    ELSE LET m == CHOOSE x \in S : \A y \in S : x <= y
         IN <<m>> \o Ascending(S \ {m})

\* a Tier-1 answer: some chunks of the knowledge base, best first
LocalAnswer(S) == [k \in 1..Cardinality(S) |-> LocalCand(Ascending(S)[k])]

\* _process_tavily_results: the provider's answer, when long enough, as a
\* 0.9 candidate, then the search results that pass the quality filter
TavilyAnswerCand ==
    Candidate(<<"tavily_answer">>, "tavily_ai_answer", 90, 0, 0,
              suggested_difficulty)

TavilySearchCand(j) ==
    Candidate(<<"tavily", j>>, "tavily_search", 40 + 25 * j, 0, 0,
              suggested_difficulty)

ProcessTavilyResults(hasAnswer, n) ==
    (IF hasAnswer THEN <<TavilyAnswerCand>> ELSE <<>>)
        \o [j \in 1..n |-> TavilySearchCand(j)]

StructuredTemplate_Untagged(difficulty, weak, gap) ==
    <<Candidate(<<"template">>, "template", 75, weak, gap, difficulty)>>

\* _get_structured_template_content: one candidate, relevance 0.75
StructuredTemplate(difficulty, weak, gap) ==
    <<Candidate(<<"template">>, "structured_template", 75, weak, gap,
                difficulty)>>

\* the template has three concepts, each containing the topic
template_concepts == 3

LocalInsufficient_Empty(rs) == Len(rs) = 0

\* if not results or len(results) < 2
LocalInsufficient(rs) == Len(rs) = 0 \/ Len(rs) < 2

AfterTier2_NoTemplate(dynamic, template) == dynamic

\* if dynamic_results: results = dynamic_results
\* else: results = self._get_structured_template_content(...)
AfterTier2(dynamic, template) == IF dynamic # <<>> THEN dynamic ELSE template

SourceBonus(c) ==
    IF c.source = "tavily_ai_answer" THEN 15
    ELSE IF c.source = "tavily_search" THEN 10
    ELSE IF c.source = "local_knowledge_base" THEN 5
    ELSE 0

Min(a, b) == IF a < b THEN a ELSE b

\* result["final_score"] = min(1.0, score) after the bonuses
FinalScore(c) ==
    Min(100, c.relevance_score + 10 * c.nWeak + 15 * c.nGap
             + (IF c.difficulty = suggested_difficulty THEN 10 ELSE 0)
             + SourceBonus(c))

Score(c) == [c EXCEPT !.scored = TRUE, !.final_score = FinalScore(c)]

\* sorted(..., key=final_score, reverse=True) is stable: c goes after every
\* element whose final score is at least its own
RECURSIVE InsertDesc_Unstable(_, _)
InsertDesc_Unstable(sorted, c) ==
    IF sorted = <<>> THEN <<c>>
    ELSE IF Head(sorted).final_score > c.final_score
         THEN <<Head(sorted)>> \o InsertDesc_Unstable(Tail(sorted), c)
         ELSE <<c>> \o sorted

RECURSIVE InsertDesc(_, _)
InsertDesc(sorted, c) ==
    IF sorted = <<>> THEN <<c>>
    ELSE IF Head(sorted).final_score >= c.final_score
         THEN <<Head(sorted)>> \o InsertDesc(Tail(sorted), c)
         ELSE <<c>> \o sorted

RECURSIVE SortDesc(_)
SortDesc(rs) ==
    IF rs = <<>> THEN <<>>
    ELSE InsertDesc(SortDesc(SubSeq(rs, 1, Len(rs) - 1)), rs[Len(rs)])

\* return ranked[:5]
rank_limit == 5

\* for result in results: ... result["final_score"] = ...: the loop writes
\* on the dicts of the list it was given
ScoreInPlace(rs) == [k \in 1..Len(rs) |-> Score(rs[k])]

\* _rank_results: the value it returns
RankResults(rs) ==
    IF rs = <<>> THEN <<>>
    ELSE LET sorted == SortDesc(ScoreInPlace(rs))
         IN SubSeq(sorted, 1, Min(rank_limit, Len(sorted)))

\* the dict retrieve returns from its try block
SuccessOutput(chunks) ==
    [returned |-> TRUE, status |-> "success", content_chunks |-> chunks]

\* the dict retrieve returns from its except block: the template for
\* ("General", "medium"), not ranked
PartialOutput(weak, gap) ==
    [returned |-> TRUE, status |-> "partial",
     content_chunks |-> StructuredTemplate("medium", weak, gap)]

\* how many of the template's concepts match the learner's weaknesses / gaps:
\* the topic is in all three or in none
TemplateMatches == {0, template_concepts}

----------------------------------------------------------------------------
(* InformationRetrievalAgent.retrieve                                      *)

\* retrieve(query_analysis, context) up to the await of _expand_query
CallRetrieve ==
    /\ irpc = "idle"
    /\ irpc' = "expand"
    /\ UNCHANGED <<knowledge_service, tavily_client, results, tier1_called,
                   local_results, tier2_called, provider, tier3_called,
                   ir_error, output, retryVars, crewVars, qaVars, restVars>>

\* except Exception: status partial with the structured template
ErrorHandler(weak, gap) ==
    /\ ir_error' = TRUE
    /\ tier3_called' = TRUE
    /\ output' = PartialOutput(weak, gap)
    /\ irpc' = "returned"

\* reading the query analysis or expanding the query raises (subtopics that
\* are not a list of strings, recommendations that is not a dict)
ExpandRaises ==
    /\ irpc = "expand"
    /\ \E weak \in TemplateMatches, gap \in TemplateMatches : ErrorHandler(weak, gap)
    /\ UNCHANGED <<knowledge_service, tavily_client, results, tier1_called,
                   local_results, tier2_called, provider, retryVars, crewVars,
                   qaVars, restVars>>

ExpandDone ==
    /\ irpc = "expand"
    /\ irpc' = "local"
    /\ UNCHANGED <<knowledge_service, tavily_client, results, tier1_called,
                   local_results, tier2_called, provider, tier3_called,
                   ir_error, output, retryVars, crewVars, qaVars, restVars>>

\* ranked_results = self._rank_results(results, ...) and the return; when
\* ranking raises (a learner profile that is not what it expects) the
\* except block answers instead. rs is `results`, t3 whether the template
\* was fetched on the way
RankAndReturn(rs, t3, rank_raises, weak, gap) ==
    IF rank_raises
    THEN /\ results' = rs
         /\ ErrorHandler(weak, gap)
    ELSE /\ results' = ScoreInPlace(rs)
         /\ output' = SuccessOutput(RankResults(rs))
         /\ tier3_called' = t3
         /\ ir_error' = FALSE
         /\ irpc' = "returned"

\* the fallback once _tavily_dynamic_search has returned `dynamic`
FallbackAndReturn(dynamic, rank_raises) ==
    \E weak \in TemplateMatches, gap \in TemplateMatches :
        RankAndReturn(
            AfterTier2(dynamic, StructuredTemplate(suggested_difficulty, weak, gap)),
            dynamic = <<>>, rank_raises, weak, gap)

\* _local_retrieval returns (an empty list without a knowledge service or
\* when the search failed); with enough results they are ranked and
\* returned; otherwise _tavily_dynamic_search is called, which returns []
\* at once without a client and awaits the provider with one
LocalRetrieval ==
    /\ irpc = "local"
    /\ \E S \in SUBSET (1..MaxLocal), rank_raises \in BOOLEAN :
          /\ ~knowledge_service => S = {}
          /\ tier1_called' = TRUE
          /\ local_results' = LocalAnswer(S)
          /\ IF ~LocalInsufficient(LocalAnswer(S))
             THEN /\ \E weak \in TemplateMatches, gap \in TemplateMatches :
                        RankAndReturn(LocalAnswer(S), FALSE, rank_raises, weak, gap)
                  /\ UNCHANGED <<tier2_called, provider>>
             ELSE IF ~tavily_client
             THEN /\ tier2_called' = TRUE
                  /\ provider' = "no_client"
                  /\ FallbackAndReturn(<<>>, rank_raises)
             ELSE /\ tier2_called' = TRUE
                  /\ rank_raises = FALSE
                  /\ results' = LocalAnswer(S)
                  /\ irpc' = "tavily"
                  /\ UNCHANGED <<provider, tier3_called, ir_error, output>>
    /\ UNCHANGED <<knowledge_service, tavily_client, retryVars, crewVars, qaVars,
                   restVars>>

\* the provider answered: _process_tavily_results, then the fallback
TavilyAnswers ==
    /\ irpc = "tavily"
    /\ \E hasAnswer \in BOOLEAN, n \in 0..MaxTavily, rank_raises \in BOOLEAN :
          /\ provider' = IF ProcessTavilyResults(hasAnswer, n) = <<>>
                         THEN "empty" ELSE "some"
          /\ FallbackAndReturn(ProcessTavilyResults(hasAnswer, n), rank_raises)
    /\ UNCHANGED <<knowledge_service, tavily_client, tier1_called,
                   local_results, tier2_called, retryVars, crewVars, qaVars,
                   restVars>>

\* the provider raised: except Exception: return [], then the fallback
TavilyRaises ==
    /\ irpc = "tavily"
    /\ provider' = "raised"
    /\ \E rank_raises \in BOOLEAN : FallbackAndReturn(<<>>, rank_raises)
    /\ UNCHANGED <<knowledge_service, tavily_client, tier1_called,
                   local_results, tier2_called, retryVars, crewVars, qaVars,
                   restVars>>

InitRetrieve ==
    /\ RetryIdle /\ CrewIdle /\ AgentIdle /\ RetrieveIdle /\ RestIdle
    /\ llm_client = FALSE
    /\ knowledge_service \in BOOLEAN
    /\ tavily_client \in BOOLEAN

NextRetrieve ==
    \/ CallRetrieve
    \/ ExpandRaises
    \/ ExpandDone
    \/ LocalRetrieval
    \/ TavilyAnswers
    \/ TavilyRaises

SpecRetrieve == InitRetrieve /\ [][NextRetrieve]_vars

----------------------------------------------------------------------------
(* SpecRank: _rank_results called on a list of candidates                  *)

\* the candidates a tier can hand to the ranking, by kind: a local chunk
\* (final score 0.85), a search result (0.85 as well), the provider's
\* answer (capped at 1.0), a local chunk with a negative similarity
RankKinds == {"local", "search", "answer", "distant"}

RankCand(kind, pos) ==
    CASE kind = "local" ->
            Candidate(<<"in", pos>>, "local_knowledge_base", 70, 0, 0,
                      suggested_difficulty)
      [] kind = "search" ->
            Candidate(<<"in", pos>>, "tavily_search", 65, 0, 0,
                      suggested_difficulty)
      [] kind = "answer" ->
            Candidate(<<"in", pos>>, "tavily_ai_answer", 90, 0, 0,
                      suggested_difficulty)
      [] kind = "distant" ->
            Candidate(<<"in", pos>>, "local_knowledge_base", 0 - 50, 0, 0,
                      suggested_difficulty)

RankInputs ==
    {[k \in 1..Len(f) |-> RankCand(f[k], k)] :
        f \in UNION {[1..n -> RankKinds] : n \in 0..MaxRankInput}}

\* ranked_results = self._rank_results(results, query_analysis, context)
CallRankResults ==
    /\ rank_pc = "idle"
    /\ rank_pc' = "done"
    /\ ranked_results' = RankResults(rank_input)
    /\ rank_input' = ScoreInPlace(rank_input)
    /\ UNCHANGED <<rank_before, aeVars, retryVars, crewVars, qaVars, irVars, vsVars, extVars,
                   llm_last>>

InitRank ==
    /\ RetryIdle /\ CrewIdle /\ AgentIdle /\ RetrieveIdle /\ AdaptiveIdle
    /\ StoreIdle /\ ExtIdle
    /\ llm_client = FALSE /\ knowledge_service = FALSE /\ tavily_client = FALSE
    /\ rank_pc = "idle"
    /\ rank_input \in RankInputs
    /\ rank_before = rank_input
    /\ ranked_results = <<>>

NextRank == CallRankResults

SpecRank == InitRank /\ [][NextRank]_vars

----------------------------------------------------------------------------
(* AdaptiveEngine: the deterministic difficulty step                       *)
(* Accuracies and thresholds are in hundredths: 80 stands for 0.80.        *)

DIFFICULTY_ORDER == <<"beginner", "easy", "medium", "hard", "expert">>

LevelSet == {DIFFICULTY_ORDER[i] : i \in 1..Len(DIFFICULTY_ORDER)}

\* cls.DIFFICULTY_ORDER.index(current), counted from 1
IndexOf(level) == CHOOSE i \in 1..Len(DIFFICULTY_ORDER) : DIFFICULTY_ORDER[i] = level

INCREASE_THRESHOLD == 80

DECREASE_THRESHOLD == 50

MIN_QUESTIONS_FOR_ADJUSTMENT == 5

IncreaseDifficulty_Wrap(current) ==
    DIFFICULTY_ORDER[(IndexOf(current) % Len(DIFFICULTY_ORDER)) + 1]

\* _increase_difficulty: the next level, the same level at the top or for a
\* level that is not in the order (ValueError swallowed)
IncreaseDifficulty(current) ==
    IF current \in LevelSet /\ IndexOf(current) < Len(DIFFICULTY_ORDER)
    THEN DIFFICULTY_ORDER[IndexOf(current) + 1]
    ELSE current

\* _decrease_difficulty
DecreaseDifficulty(current) ==
    IF current \in LevelSet /\ IndexOf(current) > 1
    THEN DIFFICULTY_ORDER[IndexOf(current) - 1]
    ELSE current

\* a PerformanceWindow entry: is_correct and, standing for its timestamp,
\* its arrival number
Entry(is_correct, id) == [is_correct |-> is_correct, id |-> id]

Max(a, b) == IF a > b THEN a ELSE b

\* the Python slice lst[-n:] (lst[-0:] is the whole list)
LastN(lst, n) ==
    IF n = 0 THEN lst ELSE SubSeq(lst, Max(1, Len(lst) - n + 1), Len(lst))

Recent_Oldest(recent_performances) ==
    SubSeq(recent_performances, 1, MIN_QUESTIONS_FOR_ADJUSTMENT)

\* recent = recent_performances[-cls.MIN_QUESTIONS_FOR_ADJUSTMENT:]
Recent(recent_performances) ==
    LastN(recent_performances, MIN_QUESTIONS_FOR_ADJUSTMENT)

\* correct = sum(1 for p in recent if p.is_correct)
Correct(recent) == Cardinality({i \in 1..Len(recent) : recent[i].is_correct})

\* accuracy = correct / len(recent); accuracy >= cls.INCREASE_THRESHOLD
ShouldIncrease(recent) ==
    Correct(recent) * 100 >= INCREASE_THRESHOLD * Len(recent)

ShouldDecrease_AtMostSixty(recent) ==
    Correct(recent) * 100 <= (DECREASE_THRESHOLD + 10) * Len(recent)

\* accuracy < cls.DECREASE_THRESHOLD
ShouldDecrease(recent) ==
    Correct(recent) * 100 < DECREASE_THRESHOLD * Len(recent)

Directions == {"none", "up", "down"}

\* calculate_next_difficulty
CalculateNextDifficulty(current, recent_performances, force_direction) ==
    IF force_direction = "up" THEN IncreaseDifficulty(current)
    ELSE IF force_direction = "down" THEN DecreaseDifficulty(current)
    ELSE IF Len(recent_performances) < MIN_QUESTIONS_FOR_ADJUSTMENT THEN current
    ELSE IF ShouldIncrease(Recent(recent_performances))
         THEN IncreaseDifficulty(current)
    ELSE IF ShouldDecrease(Recent(recent_performances))
         THEN DecreaseDifficulty(current)
    ELSE current

\* the windows of at most MaxWindow entries, numbered in arrival order
Windows ==
    {[k \in 1..Len(f) |-> Entry(f[k], k)] :
        f \in UNION {[1..n -> BOOLEAN] : n \in 0..MaxWindow}}

----------------------------------------------------------------------------
(* SpecDifficulty: calculate_next_difficulty called again and again with   *)
(* one current level and one window                                        *)

CallCalculateNextDifficulty ==
    /\ Len(nd_log) < MaxCalls
    /\ \E force_direction \in Directions :
          nd_log' = Append(nd_log,
                       [force |-> force_direction,
                        result |-> CalculateNextDifficulty(current_difficulty,
                                       performance_window, force_direction)])
    /\ UNCHANGED <<profile_exists, performance_window, performance_window_size,
                   history, session_difficulty, answered, current_difficulty,
                   drawn, rankVars, retryVars, crewVars, qaVars, irVars,
                   vsVars, extVars,
                   llm_last>>

InitDifficulty ==
    /\ RetryIdle /\ CrewIdle /\ AgentIdle /\ RetrieveIdle /\ RankIdle
    /\ StoreIdle /\ ExtIdle
    /\ llm_client = FALSE /\ knowledge_service = FALSE /\ tavily_client = FALSE
    /\ profile_exists = TRUE
    /\ performance_window \in Windows
    /\ performance_window_size = default_window_size
    /\ history = performance_window
    /\ session_difficulty = "medium" /\ answered = NoAnswer
    /\ current_difficulty \in LevelSet
    /\ nd_log = <<>> /\ drawn = NoDraw

NextDifficulty == CallCalculateNextDifficulty

SpecDifficulty == InitDifficulty /\ [][NextDifficulty]_vars

----------------------------------------------------------------------------
(* LearnerProfile.add_performance and the submit_answer route              *)

TrimWindow_KeepOldest(window, size) ==
    IF Len(window) > size THEN SubSeq(window, 1, size) ELSE window

\* if len(self.performance_window) > self.performance_window_size:
\*     self.performance_window = self.performance_window[-size:]
TrimWindow(window, size) ==
    IF Len(window) > size THEN LastN(window, size) ELSE window

\* add_performance(score, difficulty, topic, is_correct)
AddPerformance(is_correct) ==
    LET entry == Entry(is_correct, Len(history) + 1)
    IN /\ history' = Append(history, entry)
       /\ performance_window' =
              TrimWindow(Append(performance_window, entry),
                         performance_window_size)

\* conceptual_understanding values the evaluators produce
Understandings == {20, 30, 50, 100}

\* EduSynapseCrew.evaluate_response, "simple adjustment logic": the level it
\* recommends from one evaluation of a question of the given difficulty
Recommended(difficulty, is_correct, understanding) ==
    IF is_correct /\ understanding > 80 THEN IncreaseDifficulty(difficulty)
    ELSE IF ~is_correct /\ understanding < 40 THEN DecreaseDifficulty(difficulty)
    ELSE difficulty

\* what submit_answer does with the evaluation: the session takes the
\* recommended level when there is one, the profile (when the user has
\* one) gets the performance entry
ApplyEvaluation(difficulty, is_correct, recommended) ==
    /\ answered' = [difficulty |-> difficulty, evaluated |-> TRUE,
                    is_correct |-> is_correct, recommended |-> recommended]
    /\ session_difficulty' =
          IF recommended # "none" THEN recommended ELSE session_difficulty
    /\ IF profile_exists
       THEN AddPerformance(is_correct)
       ELSE UNCHANGED <<history, performance_window>>

\* POST submit: evaluate_response returns an evaluation
SubmitAnswer ==
    /\ Len(history) < MaxAdds
    /\ \E difficulty \in LevelSet, is_correct \in BOOLEAN,
          understanding \in Understandings :
          ApplyEvaluation(difficulty, is_correct,
                          Recommended(difficulty, is_correct, understanding))
    /\ UNCHANGED <<profile_exists, performance_window_size,
                   current_difficulty, nd_log, drawn, rankVars, retryVars,
                   crewVars, qaVars, irVars, vsVars, extVars,
                   llm_last>>

\* POST submit: the evaluation raised for good; evaluate_response returns
\* {"is_correct": False, "score": 0, "error": ...}
SubmitAnswerEvaluationFails ==
    /\ Len(history) < MaxAdds
    /\ \E difficulty \in LevelSet : ApplyEvaluation(difficulty, FALSE, "none")
    /\ UNCHANGED <<profile_exists, performance_window_size,
                   current_difficulty, nd_log, drawn, rankVars, retryVars,
                   crewVars, qaVars, irVars, vsVars, extVars,
                   llm_last>>

\* profile.add_performance(...) on its own
CallAddPerformance ==
    /\ profile_exists
    /\ Len(history) < MaxAdds
    /\ \E is_correct \in BOOLEAN : AddPerformance(is_correct)
    /\ UNCHANGED <<profile_exists, performance_window_size,
                   session_difficulty, answered, current_difficulty, nd_log,
                   drawn, rankVars, retryVars, crewVars, qaVars, irVars,
                   vsVars, extVars,
                   llm_last>>

InitProfile ==
    /\ RetryIdle /\ CrewIdle /\ AgentIdle /\ RetrieveIdle /\ RankIdle
    /\ StoreIdle /\ ExtIdle
    /\ llm_client = FALSE /\ knowledge_service = FALSE /\ tavily_client = FALSE
    /\ profile_exists \in BOOLEAN
    /\ performance_window = <<>>
    /\ performance_window_size \in 1..MaxWindowSize
    /\ history = <<>>
    /\ session_difficulty = "medium" /\ answered = NoAnswer
    /\ current_difficulty = "medium"
    /\ nd_log = <<>> /\ drawn = NoDraw

NextProfile ==
    \/ SubmitAnswer
    \/ SubmitAnswerEvaluationFails
    \/ CallAddPerformance

SpecProfile == InitProfile /\ [][NextProfile]_vars

----------------------------------------------------------------------------
(* The stochastic difficulty draws. Weights are in thousandths.            *)

Abs(x) == IF x < 0 THEN 0 - x ELSE x

\* LearnerProfile.get_recent_accuracy(n = 10) compared with a percentage;
\* an empty window has accuracy 0.0
recent_n == 10

AccuracyAbove(window, pct) ==
    LET recent == LastN(window, recent_n)
    IN recent # <<>> /\ Correct(recent) * 100 > pct * Len(recent)

AccuracyBelow(window, pct) ==
    LET recent == LastN(window, recent_n)
    IN recent = <<>> \/ Correct(recent) * 100 < pct * Len(recent)

\* select_random_difficulty without a profile
DefaultWeights ==
    [level \in LevelSet |->
        CASE level = "medium" -> 400
          [] level \in {"easy", "hard"} -> 200
          [] OTHER -> 100]

\* select_random_difficulty with a profile: max(0.1, 0.5 - distance * 0.15),
\* times 1.3 on the side the recent accuracy points to
ProfileWeights(window, current) ==
    [level \in LevelSet |->
        LET i == IndexOf(level)
            current_idx == IndexOf(current)
            base_weight == Max(100, 500 - Abs(i - current_idx) * 150)
        IN IF AccuracyAbove(window, 70) /\ i > current_idx
           THEN (base_weight * 13) \div 10
           ELSE IF AccuracyBelow(window, 50) /\ i < current_idx
           THEN (base_weight * 13) \div 10
           ELSE base_weight]

\* _determine_difficulty: three levels, 0.3 more for the recommended one
\* when it is one of them, shifted by the recent accuracy
DetermineLevels == {"easy", "medium", "hard"}

DetermineWeights(recommended, above80, below50) ==
    [level \in DetermineLevels |->
        (IF level = "medium" THEN 600 ELSE 200)
        + (IF level = recommended THEN 300 ELSE 0)
        + (IF above80
           THEN (IF level = "hard" THEN 200 ELSE IF level = "easy" THEN 0 - 100 ELSE 0)
           ELSE IF below50
           THEN (IF level = "easy" THEN 200 ELSE IF level = "hard" THEN 0 - 100 ELSE 0)
           ELSE 0)]

RECURSIVE SumOver(_, _)
SumOver(weights, levels) ==
    IF levels = {} THEN 0
    ELSE LET l == CHOOSE x \in levels : TRUE
         IN weights[l] + SumOver(weights, levels \ {l})

\* weights = {k: v / total for k, v in weights.items()}, in millionths
Normalize(weights) ==
    LET total == SumOver(weights, DOMAIN weights)
    IN [l \in DOMAIN weights |-> (weights[l] * 1000000) \div total]

\* random.choices(keys, weights, k=1)[0]: a key of positive weight
Choices(weights) == {l \in DOMAIN weights : weights[l] > 0}

\* the weights select_random_difficulty draws from in this state
SelectWeights ==
    Normalize(IF profile_exists
              THEN ProfileWeights(performance_window, current_difficulty)
              ELSE DefaultWeights)

\* the weights _determine_difficulty draws from; the routes pass
\* profile.get_recent_accuracy() if profile else 0
DrawWeights(recommended) ==
    Normalize(DetermineWeights(recommended,
        profile_exists /\ AccuracyAbove(performance_window, 80),
        ~profile_exists \/ AccuracyBelow(performance_window, 50)))

SelectRandomDifficulty ==
    /\ \E level \in Choices(SelectWeights) :
          drawn' = [by |-> "select_random_difficulty", recommended |-> "none",
                    level |-> level]
    /\ UNCHANGED <<profile_exists, performance_window, performance_window_size,
                   history, session_difficulty, answered, current_difficulty,
                   nd_log, rankVars, retryVars, crewVars, qaVars, irVars,
                   vsVars, extVars,
                   llm_last>>

DetermineDifficulty ==
    /\ \E recommended \in LevelSet :
          \E level \in Choices(DrawWeights(recommended)) :
             drawn' = [by |-> "_determine_difficulty",
                       recommended |-> recommended, level |-> level]
    /\ UNCHANGED <<profile_exists, performance_window, performance_window_size,
                   history, session_difficulty, answered, current_difficulty,
                   nd_log, rankVars, retryVars, crewVars, qaVars, irVars,
                   vsVars, extVars,
                   llm_last>>

InitDraw ==
    /\ RetryIdle /\ CrewIdle /\ AgentIdle /\ RetrieveIdle /\ RankIdle
    /\ StoreIdle /\ ExtIdle
    /\ llm_client = FALSE /\ knowledge_service = FALSE /\ tavily_client = FALSE
    /\ profile_exists \in BOOLEAN
    /\ performance_window \in Windows
    /\ ~profile_exists => performance_window = <<>>
    /\ performance_window_size = default_window_size
    /\ history = performance_window
    /\ session_difficulty = "medium" /\ answered = NoAnswer
    /\ current_difficulty \in LevelSet
    /\ nd_log = <<>> /\ drawn = NoDraw

NextDraw ==
    \/ SelectRandomDifficulty
    \/ DetermineDifficulty

SpecDraw == InitDraw /\ [][NextDraw]_vars

----------------------------------------------------------------------------
(* VectorStore (app/utils/vector_store.py)                                 *)
(* A vector is a pair of integers over a positive divisor d: the row       *)
(* [x, y, d] stands for (x/d, y/d). Dicts are sets of key/value records.   *)
(* Each row carries, as `owner`, the external id it was added under.       *)

\* the embeddings handed to add_vector, by external id: (3,4), (6,8) in the
\* same direction, (4,3), and the zero vector
Embeddings ==
    <<[x |-> 3, y |-> 4], [x |-> 6, y |-> 8], [x |-> 4, y |-> 3],
      [x |-> 0, y |-> 0]>>

Embedding(id) == Embeddings[((id - 1) % Len(Embeddings)) + 1]

\* a row of self._vector_list: the vector as given
RawRow(id) == [owner |-> id, x |-> Embedding(id).x, y |-> Embedding(id).y, d |-> 1]

\* np.linalg.norm of an integer vector of the model (all have integer norm)
Norm(v) == CHOOSE n \in 0..(Abs(v.x) + Abs(v.y)) : n * n = v.x * v.x + v.y * v.y

\* norms[norms == 0] = 1; self._vectors / norms, on one row
NormalizeRow(row) ==
    [row EXCEPT !.d = IF Norm(row) = 0 THEN 1 ELSE Norm(row)]

\* self._vectors = self._vectors / norms
NormalizeRows(rows) == [k \in 1..Len(rows) |-> NormalizeRow(rows[k])]

UnitNorm(row) == row.x * row.x + row.y * row.y = row.d * row.d

\* dict lookups: d.get(key) with 0 standing for None / {}
IndexGet(content_id_to_index, id) ==
    IF \E e \in content_id_to_index : e.id = id
    THEN (CHOOSE e \in content_id_to_index : e.id = id).index
    ELSE 0 - 1

MetaGet(id_to_metadata, index) ==
    IF \E e \in id_to_metadata : e.index = index
    THEN (CHOOSE e \in id_to_metadata : e.index = index).vector_id
    ELSE 0

\* d[key] = value
MetaPut(id_to_metadata, index, vector_id) ==
    {e \in id_to_metadata : e.index # index}
        \cup {[index |-> index, vector_id |-> vector_id]}

IndexPut(content_id_to_index, id, index) ==
    {e \in content_id_to_index : e.id # id} \cup {[id |-> id, index |-> index]}

\* _load_index: the vector file first (np.load raising leaves the method
\* at once), then the metadata file, whose errors are logged and dropped
LoadIndex(st, vec_ok, meta_ok) ==
    IF ~vec_ok
    THEN [st EXCEPT !.vectors_none = TRUE, !.vectors = <<>>,
                    !.vector_list = <<>>]
    ELSE LET loaded == [st EXCEPT !.vectors_none = FALSE,
                                  !.vectors = disk.vectors,
                                  !.vector_list = disk.vectors]
         IN IF disk.meta_exists /\ meta_ok
            THEN [loaded EXCEPT !.id_to_metadata = disk.id_to_metadata,
                                !.content_id_to_index = disk.content_id_to_index,
                                !.next_id = disk.next_id]
            ELSE loaded

InitializedAfter_OnlyOnSuccess(vec_ok) == vec_ok

\* self._initialized = True follows the inner try/except whatever happened
InitializedAfter(vec_ok) == TRUE

\* initialize
InitializeStore(st, vec_ok, meta_ok) ==
    IF st.initialized THEN st
    ELSE IF disk.vectors_exists
    THEN [LoadIndex(st, vec_ok, meta_ok) EXCEPT
             !.initialized = InitializedAfter(vec_ok)]
    ELSE [st EXCEPT !.initialized = TRUE]

\* whether the vector file and the metadata file can be read, where
\* initialize gets to read them
LoadChoices(st) ==
    IF st.initialized \/ ~disk.vectors_exists
    THEN {[vec_ok |-> TRUE, meta_ok |-> TRUE]}
    ELSE {c \in [vec_ok : BOOLEAN, meta_ok : BOOLEAN] :
             (~c.vec_ok \/ ~disk.meta_exists) => c.meta_ok}

\* which file the load could not use
LoadFailure(st, vec_ok, meta_ok) ==
    IF st.initialized \/ ~disk.vectors_exists THEN load_failed
    ELSE IF ~vec_ok THEN "vectors"
    ELSE IF disk.meta_exists /\ ~meta_ok THEN "metadata"
    ELSE "none"

\* add_vector once the store is initialized
AddToStore(st, vector_id) ==
    IF IndexGet(st.content_id_to_index, vector_id) >= 0 THEN st
    ELSE [st EXCEPT
            !.vector_list = Append(st.vector_list, RawRow(vector_id)),
            !.id_to_metadata = MetaPut(st.id_to_metadata, st.next_id, vector_id),
            !.content_id_to_index =
                IndexPut(st.content_id_to_index, vector_id, st.next_id),
            !.next_id = st.next_id + 1]

\* _save_index: makedirs, then self._vectors = np.array(self._vector_list)
\* and np.save, then the metadata file; any exception is logged and dropped
SaveOutcomes == {"saved", "makedirs_failed", "save_failed", "meta_failed"}

SavedStore(st, outcome) ==
    IF outcome = "makedirs_failed" THEN st
    ELSE [st EXCEPT !.vectors_none = FALSE, !.vectors = st.vector_list]

SavedDisk(files, st, outcome) ==
    IF outcome \in {"makedirs_failed", "save_failed"} THEN files
    ELSE IF outcome = "meta_failed"
    THEN [files EXCEPT !.vectors_exists = TRUE, !.vectors = st.vector_list]
    ELSE [vectors_exists |-> TRUE, vectors |-> st.vector_list,
          meta_exists |-> TRUE, id_to_metadata |-> st.id_to_metadata,
          content_id_to_index |-> st.content_id_to_index,
          next_id |-> st.next_id]

\* build_index up to the call of _save_index
BuiltStore(st) ==
    [st EXCEPT !.vectors_none = FALSE,
               !.vectors = NormalizeRows(st.vector_list)]

\* ---- search

\* query_vector: three vectors of the right dimension (one of them zero)
\* and one of another dimension, on which np.dot raises
Queries ==
    {[x |-> 3, y |-> 4, ok |-> TRUE], [x |-> 4, y |-> 3, ok |-> TRUE],
     [x |-> 0, y |-> 0, ok |-> TRUE], [x |-> 1, y |-> 1, ok |-> FALSE]}

\* if query_norm > 0: query = query / query_norm
NormalizeQuery(q) == [x |-> q.x, y |-> q.y, d |-> IF Norm(q) > 0 THEN Norm(q) ELSE 1]

\* np.dot(self._vectors, query), one row against the normalized query nq:
\* a fraction num / den, den > 0
Similarity(row, nq) ==
    [num |-> row.x * nq.x + row.y * nq.y, den |-> row.d * nq.d]

\* similarities = np.dot(self._vectors, query)
Similarities(rows, q) ==
    LET nq == NormalizeQuery(q)
    IN [k \in 1..Len(rows) |-> Similarity(rows[k], nq)]

Less(a, b) == a.num * b.den < b.num * a.den

SameScore(a, b) == a.num * b.den = b.num * a.den

RowOrders(n) ==
    {p \in [1..n -> 1..n] : \A i, j \in 1..n : i # j => p[i] # p[j]}

ArgsortOrders_Descending(similarities) ==
    {p \in RowOrders(Len(similarities)) :
        \A i, j \in 1..Len(similarities) :
            i < j => ~Less(similarities[p[i]], similarities[p[j]])}

\* np.argsort(similarities): the row numbers in ascending order of
\* similarity; the default sort is not a stable one, equal similarities
\* come in any order
ArgsortOrders(similarities) ==
    {p \in RowOrders(Len(similarities)) :
        \A i, j \in 1..Len(similarities) :
            i < j => ~Less(similarities[p[j]], similarities[p[i]])}

\* [::-1][:top_k], and the result dict of each index (indices from 0)
TopResults(st, similarities, p, top_k) ==
    [i \in 1..Min(top_k, Len(p)) |->
        LET row == p[Len(p) - i + 1]
        IN [index_id |-> row - 1,
            vector_id |-> MetaGet(st.id_to_metadata, row - 1),
            score |-> similarities[row]]]

\* everything search can return in this state
SearchResults(st, q, top_k) ==
    IF st.vectors_none \/ Len(st.vectors) = 0 THEN {<<>>}
    ELSE IF ~q.ok THEN {<<>>}
    ELSE LET similarities == Similarities(st.vectors, q)
         IN {TopResults(st, similarities, p, top_k) :
                p \in ArgsortOrders(similarities)}

\* get_vector: None (0) without an array, for an unknown id, or when the
\* index is past the end of the array (IndexError, logged)
GetVectorResult(st, vector_id) ==
    LET index_id == IndexGet(st.content_id_to_index, vector_id)
    IN IF st.vectors_none THEN [none |-> TRUE]
       ELSE IF index_id < 0 THEN [none |-> TRUE]
       ELSE IF index_id + 1 > Len(st.vectors) THEN [none |-> TRUE]
       ELSE [none |-> FALSE, row |-> st.vectors[index_id + 1]]

Ids == 1..MaxIds

\* size(): return self._next_id
Size(st) == st.next_id

----------------------------------------------------------------------------
(* SpecStore: the VectorStore instance of a process, the two files on disk *)

\* await store.initialize()
Initialize ==
    /\ \E c \in LoadChoices(vs) :
          /\ vs' = InitializeStore(vs, c.vec_ok, c.meta_ok)
          /\ load_failed' = LoadFailure(vs, c.vec_ok, c.meta_ok)
    /\ vs_last' = [op |-> "initialize", raised |-> FALSE]
    /\ UNCHANGED <<disk, rankVars, aeVars, retryVars, crewVars,
                   qaVars, irVars, extVars, llm_last>>

\* await store.add_vector(vector_id, vector, metadata)
AddVector ==
    /\ \E vector_id \in Ids, c \in LoadChoices(vs) :
          LET st == InitializeStore(vs, c.vec_ok, c.meta_ok)
          IN /\ vs' = AddToStore(st, vector_id)
             /\ load_failed' = LoadFailure(vs, c.vec_ok, c.meta_ok)
             /\ vs_last' = [op |-> "add_vector", vector_id |-> vector_id,
                            value |-> TRUE, raised |-> FALSE,
                            index_id |-> IndexGet(AddToStore(st, vector_id)
                                            .content_id_to_index, vector_id),
                            was_new |-> IndexGet(st.content_id_to_index,
                                                 vector_id) < 0,
                            was_initialized |-> vs.initialized]
    /\ UNCHANGED <<disk, rankVars, aeVars, retryVars, crewVars,
                   qaVars, irVars, extVars, llm_last>>

\* await store.build_index()
BuildIndex ==
    /\ IF vs.vector_list = <<>>
       THEN /\ vs_last' = [op |-> "build_index", value |-> FALSE,
                           raised |-> FALSE, saved |-> "none"]
            /\ UNCHANGED <<vs, disk>>
       ELSE \E outcome \in SaveOutcomes :
               /\ vs' = SavedStore(BuiltStore(vs), outcome)
               /\ disk' = SavedDisk(disk, vs, outcome)
               /\ vs_last' = [op |-> "build_index", value |-> TRUE,
                              raised |-> FALSE, saved |-> outcome]
    /\ UNCHANGED <<load_failed, rankVars, aeVars, retryVars,
                   crewVars, qaVars, irVars, extVars, llm_last>>

\* await store.search(query_vector, top_k)
Search ==
    /\ \E q \in Queries, top_k \in 1..MaxTopK :
          \E found \in SearchResults(vs, q, top_k) :
             vs_last' = [op |-> "search", query |-> q, top_k |-> top_k,
                         results |-> found, raised |-> FALSE]
    /\ UNCHANGED <<vs, disk, load_failed, rankVars, aeVars,
                   retryVars, crewVars, qaVars, irVars, extVars, llm_last>>

\* await store.get_vector(vector_id)
GetVector ==
    /\ \E vector_id \in Ids :
          vs_last' = [op |-> "get_vector", vector_id |-> vector_id,
                      found |-> GetVectorResult(vs, vector_id),
                      raised |-> FALSE]
    /\ UNCHANGED <<vs, disk, load_failed, rankVars, aeVars,
                   retryVars, crewVars, qaVars, irVars, extVars, llm_last>>

\* the files an earlier process can have left: none, or those written by
\* build_index after one add_vector, with or without the metadata file
PersistedDisks ==
    {EmptyDisk}
        \cup {SavedDisk(EmptyDisk, AddToStore(FreshStore, 1), outcome) :
                 outcome \in {"saved", "meta_failed"}}

InitStore ==
    /\ RetryIdle /\ CrewIdle /\ AgentIdle /\ RetrieveIdle /\ RankIdle
    /\ AdaptiveIdle
    /\ llm_client = FALSE /\ knowledge_service = FALSE /\ tavily_client = FALSE
    /\ vs = FreshStore
    /\ disk \in PersistedDisks
    /\ load_failed = "none"
    /\ vs_last = NoCall
    /\ ExtIdle

NextStore ==
    \/ Initialize
    \/ AddVector
    \/ BuildIndex
    \/ Search
    \/ GetVector

SpecStore == InitStore /\ [][NextStore]_vars

----------------------------------------------------------------------------
(* SpecTwoStores: two VectorStore instances of one process                 *)
(* _vector_list, _id_to_metadata and _content_id_to_index are class        *)
(* attributes holding mutable objects: an instance reads the class's       *)
(* object until it assigns the attribute itself, and append / item         *)
(* assignment change the object that is read.                              *)

Instances == {1, 2}

\* the attributes as instance i reads them
InstView(i) ==
    [initialized |-> insts[i].initialized,
     vectors_none |-> insts[i].vectors_none,
     vectors |-> insts[i].vectors,
     vector_list |-> IF insts[i].own_list THEN insts[i].vector_list
                     ELSE cls_store.vector_list,
     id_to_metadata |-> IF insts[i].own_maps THEN insts[i].id_to_metadata
                        ELSE cls_store.id_to_metadata,
     content_id_to_index |-> IF insts[i].own_maps
                             THEN insts[i].content_id_to_index
                             ELSE cls_store.content_id_to_index,
     next_id |-> insts[i].next_id]

\* whether initialize gets to call _load_index, which assigns
\* self._vector_list (as does the except branch after a failed np.load)
LoadsList(st) == ~st.initialized /\ disk.vectors_exists

\* whether _load_index assigns the two dicts and _next_id
LoadsMaps(st, vec_ok, meta_ok) ==
    LoadsList(st) /\ vec_ok /\ disk.meta_exists /\ meta_ok

\* instance o after initialize left it reading st
Initialized(o, st, list_assigned, maps_assigned) ==
    [initialized |-> st.initialized,
     vectors_none |-> st.vectors_none,
     vectors |-> st.vectors,
     next_id |-> st.next_id,
     own_list |-> o.own_list \/ list_assigned,
     vector_list |-> IF o.own_list \/ list_assigned THEN st.vector_list
                     ELSE <<>>,
     own_maps |-> o.own_maps \/ maps_assigned,
     id_to_metadata |-> IF o.own_maps \/ maps_assigned
                        THEN st.id_to_metadata ELSE {},
     content_id_to_index |-> IF o.own_maps \/ maps_assigned
                             THEN st.content_id_to_index ELSE {}]

\* instance o after add_vector changed, in place, the objects it reads
AddedInstance(o, st) ==
    [o EXCEPT !.next_id = st.next_id,
              !.vector_list = IF o.own_list THEN st.vector_list ELSE @,
              !.id_to_metadata = IF o.own_maps THEN st.id_to_metadata ELSE @,
              !.content_id_to_index =
                  IF o.own_maps THEN st.content_id_to_index ELSE @]

\* the class's objects after that add_vector
AddedClass(o, st) ==
    [vector_list |-> IF o.own_list THEN cls_store.vector_list
                     ELSE st.vector_list,
     id_to_metadata |-> IF o.own_maps THEN cls_store.id_to_metadata
                        ELSE st.id_to_metadata,
     content_id_to_index |-> IF o.own_maps THEN cls_store.content_id_to_index
                             ELSE st.content_id_to_index]

\* await store_i.initialize()
TwoInitialize(i) ==
    /\ \E c \in LoadChoices(InstView(i)) :
          insts' = [insts EXCEPT ![i] =
              Initialized(insts[i],
                          InitializeStore(InstView(i), c.vec_ok, c.meta_ok),
                          LoadsList(InstView(i)),
                          LoadsMaps(InstView(i), c.vec_ok, c.meta_ok))]
    /\ UNCHANGED <<cls_store, sleep_call, llm_last, rankVars, aeVars, vsVars,
                   retryVars, crewVars, qaVars, irVars>>

\* await store_i.add_vector(vector_id, vector, metadata)
TwoAddVector(i) ==
    /\ \E vector_id \in Ids, c \in LoadChoices(InstView(i)) :
          LET st == InitializeStore(InstView(i), c.vec_ok, c.meta_ok)
              o == Initialized(insts[i], st, LoadsList(InstView(i)),
                               LoadsMaps(InstView(i), c.vec_ok, c.meta_ok))
          IN /\ insts' = [insts EXCEPT ![i] =
                             AddedInstance(o, AddToStore(st, vector_id))]
             /\ cls_store' = AddedClass(o, AddToStore(st, vector_id))
    /\ UNCHANGED <<sleep_call, llm_last, rankVars, aeVars, vsVars,
                   retryVars, crewVars, qaVars, irVars>>

\* await store_i.build_index(): self._vectors is assigned, the files are
\* written from what the instance reads
TwoBuildIndex(i) ==
    /\ InstView(i).vector_list # <<>>
    /\ \E outcome \in SaveOutcomes :
          LET st == SavedStore(BuiltStore(InstView(i)), outcome)
          IN /\ insts' = [insts EXCEPT ![i].vectors_none = st.vectors_none,
                                       ![i].vectors = st.vectors]
             /\ disk' = SavedDisk(disk, InstView(i), outcome)
    /\ UNCHANGED <<cls_store, sleep_call, llm_last, rankVars, aeVars, vs,
                   load_failed, vs_last, retryVars, crewVars, qaVars, irVars>>

InitTwoStores ==
    /\ RetryIdle /\ CrewIdle /\ AgentIdle /\ RetrieveIdle /\ RestIdle
    /\ llm_client = FALSE /\ knowledge_service = FALSE /\ tavily_client = FALSE

NextTwoStores ==
    \/ \E i \in Instances : TwoInitialize(i)
    \/ \E i \in Instances : TwoAddVector(i)
    \/ \E i \in Instances : TwoBuildIndex(i)

SpecTwoStores == InitTwoStores /\ [][NextTwoStores]_vars

----------------------------------------------------------------------------
(* SpecBackoff: the delay _execute_with_retry sleeps before a retry       *)
(* Times are in tenths of a second.                                        *)

base == 2

max_backoff == 60

\* values of settings.crewai_timeout, in seconds
TimeoutSettings == {30, 55, 90, 120, 300}

\* draws of random.uniform(0, 5) and of random.uniform(0, 1.5), in tenths
RateLimitJitters == {0, 25, 50}

GenericJitters == {0, 7, 15}

RateLimitBackoff_Uncapped(timeout) == Max(55, timeout)

\* backoff = min(max(55, settings.crewai_timeout), 120), in seconds
RateLimitBackoff(timeout) == Min(Max(55, timeout), 120)

\* sleep_for = min(max_backoff, base * (2 ** attempt) + random.uniform(0, 1.5))
ExponentialSleep(k, jitter) ==
    Min(10 * max_backoff, 10 * base * (2 ^ k) + jitter)

\* the branch on rate_limit_indicators and the two computations of sleep_for
SleepFor(kind, k, timeout, jitter) ==
    IF kind = "ratelimit" THEN 10 * RateLimitBackoff(timeout) + jitter
    ELSE ExponentialSleep(k, jitter)

\* the except branch of attempt k, with attempts remaining, up to the sleep
ComputeSleep ==
    /\ \E kind \in ErrorKinds, k \in 0..MaxAttempt,
          timeout \in TimeoutSettings :
          \E jitter \in (IF kind = "ratelimit" THEN RateLimitJitters
                         ELSE GenericJitters) :
             sleep_call' = [kind |-> kind, attempt |-> k,
                            timeout |-> timeout, jitter |-> jitter,
                            sleep_for |-> SleepFor(kind, k, timeout, jitter)]
    /\ UNCHANGED <<cls_store, insts, llm_last, rankVars, aeVars, vsVars,
                   retryVars, crewVars, qaVars, irVars>>

InitBackoff ==
    /\ RetryIdle /\ CrewIdle /\ AgentIdle /\ RetrieveIdle /\ RestIdle
    /\ llm_client = FALSE /\ knowledge_service = FALSE /\ tavily_client = FALSE

NextBackoff == ComputeSleep

SpecBackoff == InitBackoff /\ [][NextBackoff]_vars

----------------------------------------------------------------------------
(* SpecExecute: EduSynapseCrew.execute, its two stages through the wrapper *)
(* ppc, mode, stage and result are the position, the entry point, the      *)
(* stage and the result dict of the call.                                  *)

ExecuteStages == <<"query_analysis", "information_retrieval">>

\* result = {"status": "success", "agents_executed": [], "errors": []}
ExecuteResult ==
    [returned |-> FALSE, status |-> "success", agents_executed |-> <<>>,
     errors |-> <<>>]

ErrorResult_KeepsStatus(res, e) ==
    [res EXCEPT !.errors = Append(@, e), !.returned = TRUE]

\* except Exception as e: result["status"] = "error";
\* result["errors"].append(str(e)); return result
ErrorResult(res, e) ==
    [res EXCEPT !.status = "error", !.errors = Append(@, e),
                !.returned = TRUE]

\* execute(...): the result dict is created and query_agent.analyze is
\* handed to the wrapper
CallExecute ==
    /\ ppc = "idle"
    /\ ppc' = "stage" /\ mode' = "execute" /\ stage' = 1
    /\ result' = ExecuteResult
    /\ RetryStart(0)
    /\ UNCHANGED <<count, agent_statuses, failedStage, qaVars, irVars,
                   restVars>>

InExecute == mode = "execute" /\ ppc = "stage"

\* analyze / retrieve return a dict
ExecuteUnitReturns ==
    /\ InExecute
    /\ TryReturn
    /\ UNCHANGED <<crewVars, qaVars, irVars, restVars>>

\* analyze raises while it builds its prompt, before its try block
ExecuteUnitRaises ==
    /\ InExecute /\ stage = 1
    /\ \E e \in ErrorKinds : TryError(e)
    /\ UNCHANGED <<crewVars, qaVars, irVars, restVars>>

\* asyncio.wait_for cuts the agent off at an await
ExecuteUnitTimesOut ==
    /\ InExecute /\ Suspended
    /\ TryTimeout
    /\ UNCHANGED <<crewVars, qaVars, irVars, restVars>>

ExecuteBackoff ==
    /\ InExecute
    /\ BackoffDone
    /\ UNCHANGED <<crewVars, qaVars, irVars, restVars>>

\* the wrapper returned: await asyncio.sleep(2)
ExecutePace ==
    /\ InExecute /\ rpc = "returned"
    /\ ppc' = "pace"
    /\ UNCHANGED <<mode, count, stage, agent_statuses, failedStage, result,
                   retryVars, qaVars, irVars, restVars>>

\* after the sleep the stage is appended to agents_executed; stage 1 is
\* followed by stage 2, stage 2 by the reads of query_analysis and the return
ExecuteStageListed ==
    /\ mode = "execute" /\ ppc = "pace"
    /\ IF stage < Len(ExecuteStages)
       THEN /\ result' = [result EXCEPT !.agents_executed =
                                            Append(@, ExecuteStages[stage])]
            /\ stage' = stage + 1
            /\ ppc' = "stage"
            /\ RetryStart(0)
       ELSE /\ result' = [result EXCEPT !.agents_executed =
                                            Append(@, ExecuteStages[stage]),
                                        !.returned = TRUE]
            /\ ppc' = "returned"
            /\ UNCHANGED <<stage, retryVars>>
    /\ UNCHANGED <<mode, count, agent_statuses, failedStage, qaVars, irVars,
                   restVars>>

\* the wrapper raised: the except block of execute
ExecuteHandler ==
    /\ InExecute /\ rpc = "raised"
    /\ result' = ErrorResult(result, raised)
    /\ ppc' = "returned"
    /\ UNCHANGED <<mode, count, stage, agent_statuses, failedStage, retryVars,
                   qaVars, irVars, restVars>>

InitExecute ==
    /\ RetryIdle /\ CrewIdle /\ AgentIdle /\ RetrieveIdle /\ RestIdle
    /\ llm_client \in BOOLEAN
    /\ tavily_client \in BOOLEAN
    /\ knowledge_service = FALSE

NextExecute ==
    \/ CallExecute
    \/ ExecuteUnitReturns
    \/ ExecuteUnitRaises
    \/ ExecuteUnitTimesOut
    \/ ExecuteBackoff
    \/ ExecutePace
    \/ ExecuteStageListed
    \/ ExecuteHandler

SpecExecute == InitExecute /\ [][NextExecute]_vars

----------------------------------------------------------------------------
(* Claims about _execute_with_retry *)

AllFailed == \A i \in 1..Len(errs) : errs[i] # "ok"

AllTimedOut == \A i \in 1..Len(errs) : errs[i] = "timeout"

\* C1: a unit of work that times out (or raises) on every attempt is invoked
\* exactly n = max_retries times (n >= 1) and the wrapper then raises the
\* last attempt's error; it never raises earlier, never invokes the unit
\* more than n times, and with n = 3 exactly 3 attempts precede the raise.
C1_RetryBudget ==
    /\ calls <= max_retries
    /\ calls = Len(errs)
    /\ rpc = "raised" =>
          /\ AllFailed
          /\ calls = max_retries
          /\ max_retries_arg >= 1 => calls = max_retries_arg
          /\ raised = errs[Len(errs)]
    /\ (rpc \in {"try", "sleep"} /\ AllFailed) => calls < max_retries
    /\ rpc = "returned" => errs[Len(errs)] = "ok"

C1_Witness ==
    /\ rpc = "raised" /\ max_retries_arg = 3 /\ calls = 3
    /\ AllTimedOut /\ raised = "timeout"

----------------------------------------------------------------------------
(* Claims about generate_question / generate_batch_questions *)

StageFailed == ppc = "returned" /\ failedStage # 0

IsTemplate(q) == q.kind = "academic_template"

\* C2: generate_question and generate_batch_questions never raise to their
\* caller: once a stage's wrapper has raised, the call ends by returning an
\* artifact made of template questions (one, or count of them) together
\* with the stage statuses.
C2_NeverRaises ==
    /\ ppc # "raised"
    /\ (rpc = "raised" /\ ppc # "stage") => StageFailed
    /\ StageFailed =>
          /\ result.returned
          /\ result.has_statuses
          /\ Len(result.questions) >= 1
          /\ \A i \in 1..Len(result.questions) : IsTemplate(result.questions[i])

C2_Witness == StageFailed /\ failedStage = 3 /\ mode = "batch" /\ count = 2

\* C3: when stage k fails for good, the returned statuses show every stage
\* before k completed and stage k and every later stage failed; no returned
\* status is pending or processing.
C3_FailedFromK ==
    ppc = "returned" =>
        /\ \A s \in StageSet : agent_statuses[s] \in {"completed", "failed"}
        /\ failedStage # 0 =>
              \A i \in 1..Len(Stages) :
                  agent_statuses[Stages[i]] =
                      IF i < failedStage THEN "completed" ELSE "failed"

C3_Witness ==
    /\ StageFailed /\ failedStage = 2
    /\ agent_statuses["query_analysis"] = "completed"
    /\ agent_statuses["question_generation"] = "failed"

Moved(s, from, to) == agent_statuses[s] = from /\ agent_statuses'[s] = to

Degraded(q) == q.kind # "llm"

\* C5: whenever a returned artifact is degraded (a template or rule-based
\* question stands where the completion provider's should), the returned
\* result carries is_fallback = true.
C5_FallbackFlag ==
    result.returned =>
        ((\E i \in 1..Len(result.questions) : Degraded(result.questions[i]))
            => result.is_fallback)

\* C6: a batch request for count = K returns exactly K questions.
C6_ExactCount ==
    (result.returned /\ mode = "batch") => Len(result.questions) = count

WentParallel == bpc = "done" /\ gathered # <<>>

\* C7: in the fan-out of a batch of K items, the item whose generator raised
\* is the academic template carrying that item's batch_index, every item
\* whose generator succeeded is the question that generator produced, every
\* task ran to its end (none was cancelled) and the call returns K items.
C7_Isolation ==
    WentParallel =>
        /\ Len(questions) = count
        /\ Len(tasks) = count
        /\ \A i \in 1..count :
              /\ tasks[i].st = "done"
              /\ tasks[i].gen \in {"raised", "handler_raised"} =>
                    /\ IsTemplate(questions[i])
                    /\ questions[i].batch_index = i - 1
              /\ tasks[i].gen = "parsed" =>
                    questions[i] = [kind |-> "llm", origin |-> i,
                                    batch_index |-> i - 1]

C7_Witness ==
    /\ WentParallel /\ count = 3
    /\ tasks[2].gen = "raised" /\ IsTemplate(questions[2])
    /\ tasks[1].gen = "parsed" /\ questions[1].kind = "llm"
    /\ tasks[3].gen = "parsed" /\ questions[3].kind = "llm"

----------------------------------------------------------------------------
(* Claims about retrieve *)

Tier2Fruitless == tier2_called /\ provider \in {"no_client", "raised", "empty"}

\* C8 as stated: Tier 2 is invoked exactly when Tier 1 yields fewer than 2
\* candidates; with 2 or more neither Tier 2 nor Tier 3 is invoked; Tier 3
\* is invoked only after Tier 2 was tried and raised or returned nothing.
C8_TierOrder ==
    /\ tier1_called => (tier2_called <=> Len(local_results) < 2)
    /\ Len(local_results) >= 2 => (~tier2_called /\ ~tier3_called)
    /\ tier3_called => Tier2Fruitless

\* C8 amended: _tavily_dynamic_search is invoked exactly when Tier 1 returned
\* fewer than 2 candidates and never before Tier 1 returned; with 2 or more
\* Tier 2 is not invoked; the Tier-3 template is fetched only after Tier 2
\* was tried and raised or returned nothing, or by retrieve's except block
\* (query expansion or ranking raised), which is the only way it is fetched
\* when Tier 1 returned 2 or more.
C8_TierOrderOrHandler ==
    /\ tier1_called => (tier2_called <=> Len(local_results) < 2)
    /\ ~tier1_called => ~tier2_called
    /\ Len(local_results) >= 2 => (~tier2_called /\ (tier3_called => ir_error))
    /\ tier3_called => (Tier2Fruitless \/ ir_error)
    /\ (output.returned /\ ~ir_error /\ Tier2Fruitless) => tier3_called

C8_Witness ==
    /\ output.returned /\ ~ir_error
    /\ Len(local_results) = 1 /\ tier2_called /\ provider = "empty"
    /\ tier3_called

\* C9: retrieve returns at least one candidate whatever the tiers did.
C9_NeverEmpty == output.returned => Len(output.content_chunks) >= 1

C9_Witness ==
    /\ output.returned /\ ~ir_error
    /\ local_results = <<>> /\ provider = "no_client"
    /\ Len(output.content_chunks) = 1

\* C10: Tier 1 returned 0 candidates and the external provider raised: the
\* output is exactly one candidate, the Tier-3 template, tagged
\* source = "structured_template".
C10_TemplateOnly ==
    (output.returned /\ tier1_called /\ local_results = <<>> /\ provider = "raised")
        => /\ Len(output.content_chunks) = 1
           /\ output.content_chunks[1].source = "structured_template"
           /\ output.content_chunks[1].content_id = <<"template">>

C10_Witness ==
    /\ output.returned /\ ~ir_error /\ tier1_called
    /\ local_results = <<>> /\ provider = "raised"
    /\ output.content_chunks[1].scored

\* C11: when Tier 1 yielded exactly one candidate and the fallback
\* contributed candidates, that Tier-1 candidate is still among the
\* candidates retrieve ranks and returns.
C11_TierOneKept ==
    (output.returned /\ ~ir_error /\ Len(local_results) = 1) =>
        \E k \in 1..Len(output.content_chunks) :
            output.content_chunks[k].content_id = local_results[1].content_id

\* C12: every candidate retrieve returns carries a final score in [0, 1].
C12_ScoreRange ==
    output.returned =>
        \A k \in 1..Len(output.content_chunks) :
            /\ output.content_chunks[k].scored
            /\ output.content_chunks[k].final_score >= 0
            /\ output.content_chunks[k].final_score <= 100

----------------------------------------------------------------------------
(* Claims about _rank_results *)

\* position in the input of the i-th returned candidate
InputPos(i) == ranked_results[i].content_id[2]

Returned(k) == \E i \in 1..Len(ranked_results) : InputPos(i) = k

\* C13: _rank_results returns at most 5 candidates (all of them when the
\* input has at most 5), each an input candidate with its final score, in
\* non-increasing order of final score; no candidate left out scores
\* higher than one returned; candidates with equal final score keep their
\* input order, also across the cut.
C13_TopFiveStable ==
    rank_pc = "done" =>
        /\ Len(ranked_results) = Min(rank_limit, Len(rank_before))
        /\ \A i \in 1..Len(ranked_results) :
              /\ InputPos(i) \in 1..Len(rank_before)
              /\ ranked_results[i] = Score(rank_before[InputPos(i)])
        /\ \A i, j \in 1..Len(ranked_results) :
              i < j =>
                 /\ ranked_results[i].final_score >= ranked_results[j].final_score
                 /\ InputPos(i) # InputPos(j)
                 /\ ranked_results[i].final_score = ranked_results[j].final_score
                        => InputPos(i) < InputPos(j)
        /\ \A k \in 1..Len(rank_before) :
              ~Returned(k) =>
                 \A i \in 1..Len(ranked_results) :
                    \/ FinalScore(rank_before[k]) < ranked_results[i].final_score
                    \/ /\ FinalScore(rank_before[k]) = ranked_results[i].final_score
                       /\ InputPos(i) < k

C13_Witness ==
    /\ rank_pc = "done" /\ Len(rank_before) = 6 /\ Len(ranked_results) = 5
    /\ ranked_results[1].final_score = 100
    /\ ranked_results[4].final_score = ranked_results[5].final_score
    /\ ~Returned(6)
    /\ FinalScore(rank_before[6]) = ranked_results[5].final_score

\* C14: after _rank_results the candidates of the list it was given are
\* what they were before the call.
C14_InputUnchanged == rank_pc = "done" => rank_input = rank_before

----------------------------------------------------------------------------
(* Claims about calculate_next_difficulty *)

\* how many of the 5 most recent samples of the window are correct
RecentCorrect ==
    Cardinality({i \in 1..Len(performance_window) :
                    /\ i > Len(performance_window) - 5
                    /\ performance_window[i].is_correct})

\* one level up / down in [beginner, easy, medium, hard, expert], staying at
\* the end of the sequence
LevelUp(level) ==
    CASE level = "beginner" -> "easy"
      [] level = "easy" -> "medium"
      [] level = "medium" -> "hard"
      [] OTHER -> "expert"

LevelDown(level) ==
    CASE level = "expert" -> "hard"
      [] level = "hard" -> "medium"
      [] level = "medium" -> "easy"
      [] OTHER -> "beginner"

Unforced(i) == nd_log[i].force = "none"

\* C15: with no forced direction calculate_next_difficulty returns the
\* current level on fewer than 5 samples; otherwise it looks at the 5 most
\* recent samples only and returns one level up when at least 4 are correct,
\* one level down when at most 2 are correct, the current level when exactly
\* 3 are; five incorrect at medium give easy, five correct at medium hard.
C15_DeterministicStep ==
    \A i \in 1..Len(nd_log) :
        Unforced(i) =>
            /\ nd_log[i].result =
                  IF Len(performance_window) < 5 THEN current_difficulty
                  ELSE IF RecentCorrect >= 4 THEN LevelUp(current_difficulty)
                  ELSE IF RecentCorrect <= 2 THEN LevelDown(current_difficulty)
                  ELSE current_difficulty
            /\ (/\ current_difficulty = "medium"
                /\ Len(performance_window) = 5
                /\ RecentCorrect = 0) => nd_log[i].result = "easy"
            /\ (/\ current_difficulty = "medium"
                /\ Len(performance_window) = 5
                /\ RecentCorrect = 5) => nd_log[i].result = "hard"

C15_Witness ==
    /\ Len(nd_log) >= 1 /\ Unforced(1)
    /\ current_difficulty = "medium"
    /\ Len(performance_window) = 6
    /\ ~performance_window[1].is_correct
    /\ ~performance_window[2].is_correct
    /\ RecentCorrect = 4
    /\ nd_log[1].result = "hard"

\* C16: whatever the window and the forced direction, the level returned is
\* one of the five, at most one level away from the current one; up from
\* expert is expert and down from beginner is beginner.
C16_Clamped ==
    \A i \in 1..Len(nd_log) :
        /\ nd_log[i].result \in
              {LevelDown(current_difficulty), current_difficulty,
               LevelUp(current_difficulty)}
        /\ nd_log[i].force = "up" => nd_log[i].result = LevelUp(current_difficulty)
        /\ nd_log[i].force = "down" =>
              nd_log[i].result = LevelDown(current_difficulty)
        /\ current_difficulty = "expert" => nd_log[i].result # "beginner"
        /\ current_difficulty = "beginner" => nd_log[i].result # "expert"

C16_Witness ==
    /\ Len(nd_log) = 2
    /\ current_difficulty = "expert"
    /\ nd_log[1].force = "up" /\ nd_log[1].result = "expert"
    /\ Unforced(2) /\ RecentCorrect = 5 /\ Len(performance_window) >= 5
    /\ nd_log[2].result = "expert"

\* the accuracy of the most recent samples (5 at most) lies in [0.5, 0.8)
AccuracyInHoldBand ==
    LET n == Min(5, Len(performance_window))
    IN /\ n >= 1
       /\ RecentCorrect * 100 >= 50 * n
       /\ RecentCorrect * 100 < 80 * n

\* C17: repeated unforced calls with one current level and one window whose
\* recent accuracy lies in [0.5, 0.8) all return the current level.
C17_Idempotent ==
    AccuracyInHoldBand =>
        \A i \in 1..Len(nd_log) :
            Unforced(i) => nd_log[i].result = current_difficulty

C17_Witness ==
    /\ AccuracyInHoldBand /\ Len(performance_window) >= 5
    /\ RecentCorrect = 3
    /\ Len(nd_log) = 2 /\ Unforced(1) /\ Unforced(2)
    /\ nd_log[1].result = nd_log[2].result
    /\ current_difficulty = "hard"

----------------------------------------------------------------------------
(* Claims about the session's difficulty, the draws and the window *)

\* C18: after an answer is evaluated, the level recommended for the session
\* differs from the answered question's difficulty only if the performance
\* window holds at least 5 samples.
C18_NoMoveUnderFive ==
    (/\ answered.evaluated
     /\ answered.recommended # "none"
     /\ answered.recommended # answered.difficulty)
        => Len(performance_window) >= 5

\* C19: each pre-generation draw gives every one of the five levels a
\* strictly positive weight after renormalization and returns one of the
\* five levels.
C19_AllLevelsDrawable ==
    /\ drawn.by # "none" => drawn.level \in LevelSet
    /\ drawn.by = "select_random_difficulty" =>
          \A l \in LevelSet : l \in DOMAIN SelectWeights /\ SelectWeights[l] > 0
    /\ drawn.by = "_determine_difficulty" =>
          \A l \in LevelSet :
             /\ l \in DOMAIN DrawWeights(drawn.recommended)
             /\ DrawWeights(drawn.recommended)[l] > 0

\* C20: the window never holds more than performance_window_size records,
\* and it holds exactly the most recent records given to add_performance,
\* in arrival order.
C20_RollingWindow ==
    /\ Len(performance_window) <= performance_window_size
    /\ Len(performance_window) = Min(performance_window_size, Len(history))
    /\ \A k \in 1..Len(performance_window) :
          performance_window[k] =
              history[Len(history) - Len(performance_window) + k]

C20_Witness ==
    /\ performance_window_size = 3
    /\ Len(history) = 5
    /\ Len(performance_window) = 3
    /\ performance_window[1].id = 3
    /\ performance_window[3].id = 5

----------------------------------------------------------------------------
(* Claims about the error classes of _execute_with_retry *)

\* C29: an error that is neither a timeout, a provider error nor a
\* rate-limit error is never followed by another attempt: the invocation
\* that raised it is the first and the last, and the wrapper raises it.
C29_OnlyTransientRetried ==
    \A i \in 1..Len(errs) :
        errs[i] = "malformed" =>
            /\ i = 1 /\ Len(errs) = 1
            /\ rpc = "raised" /\ raised = "malformed"

\* C30: an attempt that timed out and is not the last one is followed by a
\* backoff sleep before the next attempt.
C30_TimeoutBacksOff ==
    [][(/\ Len(errs') = Len(errs) + 1
        /\ errs'[Len(errs')] = "timeout"
        /\ rpc' # "raised") => rpc' = "sleep"]_vars

----------------------------------------------------------------------------
(* Claims about the performance records of submit_answer *)

\* C21: for a learner with a profile, an answer whose evaluation completed
\* appends exactly one record, and an answer whose evaluation ended in the
\* orchestrator's error result (no recommended level) appends none.
C21_OneRecordPerEvaluation ==
    [][(profile_exists /\ answered' # answered) =>
          IF answered'.recommended = "none"
          THEN history' = history /\ performance_window' = performance_window
          ELSE Len(history') = Len(history) + 1]_vars

----------------------------------------------------------------------------
(* Claims about VectorStore *)

NonZero(row) == row.x # 0 \/ row.y # 0

\* C22: once build_index has returned True, every (non-zero) row of the
\* array search compares against has unit L2 norm.
C22_UnitNormAfterBuild ==
    (vs_last.op = "build_index" /\ vs_last.value) =>
        /\ ~vs.vectors_none
        /\ \A k \in 1..Len(vs.vectors) :
              NonZero(vs.vectors[k]) => UnitNorm(vs.vectors[k])

\* the rows of the searched array that a result list does not name
NotReturned(found) ==
    {k \in 1..Len(vs.vectors) :
        \A i \in 1..Len(found) : found[i].index_id # k - 1}

\* C23: search returns at most top_k results with non-increasing scores;
\* for a query of the index's dimension they are min(top_k, rows) distinct
\* rows with their own scores, and no row left out scores higher than a
\* returned one.
C23_TopKDescending ==
    vs_last.op = "search" =>
        LET found == vs_last.results
        IN /\ Len(found) <= vs_last.top_k
           /\ \A i, j \in 1..Len(found) :
                 i < j => ~Less(found[i].score, found[j].score)
           /\ (vs_last.query.ok /\ ~vs.vectors_none) =>
                 LET similarities == Similarities(vs.vectors, vs_last.query)
                 IN /\ Len(found) = Min(vs_last.top_k, Len(vs.vectors))
                    /\ \A i, j \in 1..Len(found) :
                          i # j => found[i].index_id # found[j].index_id
                    /\ \A i \in 1..Len(found) :
                          /\ found[i].index_id + 1 \in 1..Len(vs.vectors)
                          /\ found[i].score =
                                 similarities[found[i].index_id + 1]
                    /\ \A k \in NotReturned(found), i \in 1..Len(found) :
                          ~Less(found[i].score, similarities[k])

C23_Witness ==
    /\ vs_last.op = "search"
    /\ vs_last.query.ok
    /\ vs_last.top_k = 2
    /\ Len(vs.vectors) = 3
    /\ Len(vs_last.results) = 2
    /\ Less(vs_last.results[2].score, vs_last.results[1].score)

\* C24: two results with the same score come in insertion order, the
\* lower internal index first.
C24_TiesInInsertionOrder ==
    vs_last.op = "search" =>
        \A i, j \in 1..Len(vs_last.results) :
            (i < j /\ SameScore(vs_last.results[i].score,
                                vs_last.results[j].score)) =>
                vs_last.results[i].index_id < vs_last.results[j].index_id

\* no row of the searched array holds a vector added under this id
NotInArray(vector_id) ==
    vs.vectors_none \/ \A k \in 1..Len(vs.vectors) :
                          vs.vectors[k].owner # vector_id

\* C25: search without an array, or on an empty one, returns []; get_vector
\* of an id that was never added, or whose vector is not in the array yet,
\* returns None; neither raises.
C25_EmptyNotError ==
    /\ vs_last.op \in {"search", "get_vector"} => ~vs_last.raised
    /\ (vs_last.op = "search" /\ (vs.vectors_none \/ vs.vectors = <<>>)) =>
          vs_last.results = <<>>
    /\ (/\ vs_last.op = "get_vector"
        /\ \/ IndexGet(vs.content_id_to_index, vs_last.vector_id) < 0
           \/ NotInArray(vs_last.vector_id)) =>
          vs_last.found.none

\* C26: the indices given to external ids are distinct, each is the
\* position of that id's own vector in the list, and an addition of a new
\* id gets an index above every index given before.
C26_DistinctIncreasingIndices ==
    /\ \A e, f \in vs.content_id_to_index :
          e.index = f.index => e.id = f.id
    /\ \A e \in vs.content_id_to_index :
          /\ e.index < vs.next_id
          /\ e.index + 1 \in 1..Len(vs.vector_list)
          /\ vs.vector_list[e.index + 1].owner = e.id
    /\ (vs_last.op = "add_vector" /\ vs_last.was_new) =>
          \A e \in vs.content_id_to_index :
             e.id # vs_last.vector_id => e.index < vs_last.index_id

\* C27: after a load that could not read the vector file or the metadata
\* file the store is initialized and no call raises; add_vector returns
\* True and knows the id, build_index on a non-empty list returns True and
\* leaves an array of as many rows, search on an array answers with
\* min(top_k, rows) results.
C27_LoadFailureNotFatal ==
    load_failed # "none" =>
        /\ vs.initialized
        /\ vs_last.op # "none" => ~vs_last.raised
        /\ vs_last.op = "add_vector" =>
              /\ vs_last.value
              /\ IndexGet(vs.content_id_to_index, vs_last.vector_id) >= 0
        /\ (vs_last.op = "build_index" /\ vs.vector_list # <<>>) =>
              /\ vs_last.value
              /\ ~vs.vectors_none
              /\ Len(vs.vectors) = Len(vs.vector_list)
        /\ (vs_last.op = "search" /\ vs_last.query.ok /\ ~vs.vectors_none) =>
              Len(vs_last.results) = Min(vs_last.top_k, Len(vs.vectors))

C27_Witness ==
    /\ load_failed = "vectors"
    /\ vs_last.op = "search"
    /\ Len(vs_last.results) = 2

\* C28: add_vector on an initialized store that has an array leaves the
\* array as it is, and every search answers as it did before the addition.
C28_OnlyRebuildChangesSearch ==
    [][(/\ vs.initialized /\ ~vs.vectors_none
        /\ vs_last'.op = "add_vector"
        /\ Len(vs'.vector_list) = Len(vs.vector_list) + 1) =>
          /\ vs'.vectors = vs.vectors
          /\ \A q \in Queries, top_k \in 1..MaxTopK :
                SearchResults(vs', q, top_k) = SearchResults(vs, q, top_k)]_vars

----------------------------------------------------------------------------
(* Claims about the wrapper under a configured retry count *)

\* C35: the wrapper never ends without having invoked the unit of work; it
\* stops at the first invocation that succeeds and ends by returning that
\* invocation's result or by raising.
C35_AtLeastOneAttempt ==
    /\ rpc \in {"returned", "raised"} => calls >= 1
    /\ \A i \in 1..Len(errs) : errs[i] = "ok" => i = Len(errs)
    /\ rpc = "returned" => (Len(errs) >= 1 /\ errs[Len(errs)] = "ok")
    /\ rpc = "raised" => (raised # "none" /\ AllFailed)

----------------------------------------------------------------------------
(* Claims about the bookkeeping of VectorStore *)

\* C36: the index mapped to each external id is the position of that id's
\* vector in the stored list, and size() is the number of stored vectors.
C36_IndexIsPositionAndSize ==
    /\ \A e \in vs.content_id_to_index :
          /\ e.index + 1 \in 1..Len(vs.vector_list)
          /\ vs.vector_list[e.index + 1] = RawRow(e.id)
    /\ Size(vs) = Len(vs.vector_list)

----------------------------------------------------------------------------
(* Claims about unparseable provider output *)

----------------------------------------------------------------------------
(* Claims about the stages of generate_question *)

Completed(name) == agent_statuses[name] = "completed"

Started(name) == agent_statuses[name] # "pending"

----------------------------------------------------------------------------
(* Claims about termination *)

\* C39: every invocation of generate_question eventually returns.
C39_EventuallyReturns ==
    (mode = "single" /\ ppc = "next") ~> (ppc = "returned")

C39_Witness ==
    /\ mode = "single" /\ ppc = "returned"
    /\ failedStage = 3 /\ calls = crewai_max_retries
    /\ AllTimedOut

----------------------------------------------------------------------------
(* Claims about execute *)

BothListed == result.agents_executed = ExecuteStages

----------------------------------------------------------------------------
(* Claims about the delay before a retry *)

\* C32: after a rate-limit error the delay is a base between 55 and 120
\* seconds, the timeout setting clamped to that range whatever the attempt,
\* plus a jitter of at most 5 seconds.
C32_RateLimitWindow ==
    sleep_call.kind = "ratelimit" =>
        LET window == sleep_call.sleep_for - sleep_call.jitter
        IN /\ 550 <= window /\ window <= 1200
           /\ window = IF sleep_call.timeout < 55 THEN 550
                       ELSE IF sleep_call.timeout > 120 THEN 1200
                       ELSE 10 * sleep_call.timeout
           /\ 0 <= sleep_call.jitter /\ sleep_call.jitter <= 50

C32_Witness ==
    /\ sleep_call.kind = "ratelimit"
    /\ sleep_call.timeout = 300
    /\ sleep_call.attempt = 0
    /\ sleep_call.sleep_for = 1250

\* C33: after an error without a rate-limit signature on attempt k the
\* delay is min(60, 2 * 2^k) seconds plus the jitter, for every k.
C33_JitterOnTopOfCap ==
    sleep_call.kind \in {"generic", "malformed"} =>
        sleep_call.sleep_for =
            Min(600, 20 * (2 ^ sleep_call.attempt)) + sleep_call.jitter

----------------------------------------------------------------------------
(* Claims about two VectorStore instances *)

\* what instance i keeps: its vectors, its metadata and its id mapping
Kept(i) ==
    [vector_list |-> InstView(i).vector_list,
     id_to_metadata |-> InstView(i).id_to_metadata,
     content_id_to_index |-> InstView(i).content_id_to_index]

\* C37: a call on one instance changes nothing of what the other instance
\* keeps: no step changes the vectors, the metadata or the id mapping of
\* both instances.
C37_InstancesIndependent ==
    [][\A i, j \in Instances :
          (i # j /\ insts'[i] # insts[i]) => Kept(j)' = Kept(j)]_vars

====
